---- MODULE Spec2Model ----
(***************************************************************************)
(* A model of the binary record engine of Wrye Bash:                       *)
(*   brec/basic_elements.py  - subrecord header codec and record elements  *)
(*   brec/record_structs.py  - element sets and the record lifecycle       *)
(*   bosh/mods_metadata.py   - the group-hierarchy scanner and fog fixer   *)
(*                                                                         *)
(* A byte string is the sequence of its bytes, each in 0 .. 255, so the    *)
(* widths are the real ones (a 16-bit subrecord size, payloads longer      *)
(* than 65535 bytes).                                                      *)
(***************************************************************************)
EXTENDS Integers, Sequences, FiniteSets, TLC

VARIABLES
    \* header codec: one subrecord written by packSub and read back
    s_pc, s_sig, s_data, s_out, s_hdr, s_blob,
    \* repeating group: the subrecords read (g_sigs, g_in), the record they are
    \* loaded into (g_rec) and what dumping it writes (g_out)
    g_pc, g_sigs, g_in, g_rec, g_out,
    \* record lifecycle: the header and the stream a record is made from (r_hdr,
    \* r_ins), the record (r_rec), the stream it is dumped to (r_out), what the last
    \* getSize returned (r_ret), the exception the last call raised (r_err), the
    \* record decoded again from its own bytes (r_again), and what was done (r_hist)
    r_pc, r_hdr, r_ins, r_rec, r_out, r_ret, r_err, r_again, r_hist,
    \* scanner: the mod scanned and the options of the scan (k_in), the offset of
    \* the reader (k_pos), the group context (k_ctx), the locals udr,
    \* parents_to_scan, fog and pos (k_udr, k_parents, k_fog, k_posvar) and the
    \* tuple appended to ret (k_ret)
    k_pc, k_in, k_pos, k_ctx, k_udr, k_parents, k_fog, k_posvar, k_ret,
    \* fog fixer: the mod and the platform (f_in), the offset of the reader (f_pos),
    \* the temporary file written (f_out), fixedCells (f_fixed), the file at the
    \* mod's path (f_file), the reader of the mod (f_ins: "open" or "closed"), the
    \* temporary file ("absent", "open" for writing, or "closed": on disk) and the
    \* backup of the mod (f_backup)
    f_pc, f_in, f_pos, f_out, f_fixed, f_file, f_ins, f_temp, f_backup,
    \* batch scan: the mods and flags scan_Many is called with (b_in), the index
    \* of its loop (b_i), its list ret (b_ret) and what its caller holds (b_caller)
    b_pc, b_in, b_i, b_ret, b_caller,
    \* schema construction: the elements and the entry point (m_in), the index of
    \* the element at hand (m_i), the tables built so far and the exception raised
    m_pc, m_in, m_i, m_defaulters, m_loaders, m_exc,
    \* what the scan loops (k_log) and the loop of the fixer (f_log) did, in
    \* order: the sink called, a header read, a record or group header done with
    k_log, f_log,
    \* the reader of the mod a scan has open (k_ins: "open" or "closed")
    k_ins,
    \* iterate_subrecords of the record r_rec: the generator (i_pc), the
    \* signatures asked for, the reader it opened, the reader's bytes and offset
    i_pc, i_sigs, i_reader, i_data, i_pos,
    \* load_mel of one element on a reader: the call (l_in), the reader (l_ins),
    \* the record loaded into and the exception raised
    l_pc, l_in, l_ins, l_rec, l_exc,
    \* a group object: the tables of its schema (o_in), the attributes stored in
    \* it, the last read, the counters of its class, and the operations so far
    o_pc, o_in, o_obj, o_ret, o_misses, o_errors, o_n

subVars == <<s_pc, s_sig, s_data, s_out, s_hdr, s_blob>>
grpVars == <<g_pc, g_sigs, g_in, g_rec, g_out>>
recVars == <<r_pc, r_hdr, r_ins, r_rec, r_out, r_ret, r_err, r_again, r_hist>>

scanVars == <<k_pc, k_in, k_pos, k_ctx, k_udr, k_parents, k_fog, k_posvar, k_ret, k_log, k_ins>>
fogVars == <<f_pc, f_in, f_pos, f_out, f_fixed, f_file, f_ins, f_temp, f_backup, f_log>>
batchVars == <<b_pc, b_in, b_i, b_ret, b_caller>>
setVars == <<m_pc, m_in, m_i, m_defaulters, m_loaders, m_exc>>
iterVars == <<i_pc, i_sigs, i_reader, i_data, i_pos>>
loadVars == <<l_pc, l_in, l_ins, l_rec, l_exc>>
objVars == <<o_pc, o_in, o_obj, o_ret, o_misses, o_errors, o_n>>
lateVars == <<batchVars, setVars, iterVars, loadVars, objVars>>

vars == <<subVars, grpVars, recVars, scanVars, fogVars, lateVars>>

\* everything but one part of the state
notSub == <<grpVars, recVars, scanVars, fogVars, lateVars>>
notGrp == <<subVars, recVars, scanVars, fogVars, lateVars>>
notRec == <<subVars, grpVars, scanVars, fogVars, lateVars>>
notScan == <<subVars, grpVars, recVars, fogVars, lateVars>>
notFog == <<subVars, grpVars, recVars, scanVars, lateVars>>
notBatch == <<subVars, grpVars, recVars, fogVars, setVars, iterVars, loadVars, objVars>>
notSet == <<subVars, grpVars, recVars, scanVars, fogVars, batchVars, iterVars, loadVars, objVars>>
notIter == <<subVars, grpVars, recVars, scanVars, fogVars, batchVars, setVars, loadVars, objVars>>
notLoad == <<subVars, grpVars, recVars, scanVars, fogVars, batchVars, setVars, iterVars, objVars>>
notObj == <<subVars, grpVars, recVars, scanVars, fogVars, batchVars, setVars, iterVars, loadVars>>

(***************************************************************************)
(* Byte strings                                                            *)
(***************************************************************************)
RECURSIVE LE(_, _), BCatAll(_)

\* b''
Empty == <<>>

\* n copies of byte b
Rep(n, b) == IF n = 0 THEN <<>> ELSE [i \in 1 .. n |-> b]

\* len(s)
BLen(s) == Len(s)

\* a + b
BCat(a, b) == a \o b

\* the concatenation of a sequence of byte strings
BCatAll(ss) == IF ss = <<>> THEN <<>> ELSE BCat(ss[1], BCatAll(Tail(ss)))

\* s[:k]
BTake(s, k) == IF k <= 0 THEN <<>> ELSE IF k >= Len(s) THEN s ELSE SubSeq(s, 1, k)

\* s[k:]
BDrop(s, k) == IF k <= 0 THEN s ELSE IF k >= Len(s) THEN <<>> ELSE SubSeq(s, k + 1, Len(s))

\* s[i-1], for 1 <= i <= len(s)
BAt(s, i) == s[i]

\* s[from:from+n]
BSlice(s, from, n) == BTake(BDrop(s, from), n)

\* struct.pack of an unsigned little-endian integer of w bytes
LE(v, w) == IF w = 0 THEN <<>> ELSE BCat(Rep(1, v % 256), LE(v \div 256, w - 1))

\* struct.unpack of an unsigned little-endian integer of 2 / 4 bytes
UnLE2(s) == BAt(s, 1) + 256 * BAt(s, 2)
UnLE4(s) == BAt(s, 1) + 256 * BAt(s, 2) + 65536 * BAt(s, 3) + 16777216 * BAt(s, 4)

(***************************************************************************)
(* Signatures: four ASCII bytes                                            *)
(***************************************************************************)
SigCode ==
    [ XXXX |-> <<88, 88, 88, 88>>, EDID |-> <<69, 68, 73, 68>>,
      XCLL |-> <<88, 67, 76, 76>>, XCLC |-> <<88, 67, 76, 67>>,
      DATA |-> <<68, 65, 84, 65>>, NAME |-> <<78, 65, 77, 69>>,
      XNAM |-> <<88, 78, 65, 77>>, OBSO |-> <<79, 66, 83, 79>>,
      SONE |-> <<83, 79, 78, 69>>, STWO |-> <<83, 84, 87, 79>>,
      GRUP |-> <<71, 82, 85, 80>>, CELL |-> <<67, 69, 76, 76>>,
      WRLD |-> <<87, 82, 76, 68>>, REFR |-> <<82, 69, 70, 82>>,
      ACHR |-> <<65, 67, 72, 82>>, WEAP |-> <<87, 69, 65, 80>>,
      TES4 |-> <<84, 69, 83, 52>> ]

AllSigs == DOMAIN SigCode

\* the four bytes of a signature
SigBytes(sig) ==
    BCatAll(<<Rep(1, SigCode[sig][1]), Rep(1, SigCode[sig][2]),
              Rep(1, SigCode[sig][3]), Rep(1, SigCode[sig][4])>>)

\* the signature four bytes spell, "????" when it is none the model names
BytesSig(s) ==
    LET t == <<BAt(s, 1), BAt(s, 2), BAt(s, 3), BAt(s, 4)>>
    IN IF \E g \in AllSigs : SigCode[g] = t
       THEN CHOOSE g \in AllSigs : SigCode[g] = t
       ELSE "????"

(***************************************************************************)
(* Subrecord headers (basic_elements.py)                                   *)
(***************************************************************************)
\* Subrecord.sub_header_size
sub_header_size == 6

\* the largest payload length a subrecord header stores (0xFFFF)
MaxSubSize == 65535

\* structs_cache['=4sH'].pack(mel_sig, lenData)
PackSubHeader(mel_sig, lenData) == BCat(SigBytes(mel_sig), LE(lenData, 2))

\* MelXXXX(lenData).dumpData('record', out): the XXXX header and the 4-byte size
MelXXXX_dumpData(int_size) == BCat(PackSubHeader("XXXX", 4), LE(int_size, 4))

\* Subrecord._dump_bytes: the bytes written for a payload of lenData bytes
dump_bytes_skip_marker(mel_sig, binary_data, lenData) ==
    BCat(PackSubHeader(mel_sig, IF lenData > MaxSubSize THEN 0 ELSE lenData),
         binary_data)

dump_bytes(mel_sig, binary_data, lenData) ==
    IF lenData > MaxSubSize
    THEN BCatAll(<<MelXXXX_dumpData(lenData), PackSubHeader(mel_sig, 0),
                   binary_data>>)
    ELSE BCat(PackSubHeader(mel_sig, lenData), binary_data)

\* Subrecord.packSub
packSub(mel_sig, binary_data) == dump_bytes(mel_sig, binary_data, BLen(binary_data))

\* unpackSubHeader at offset pos of stream s:
\* [sig, size, pos (the offset after the header)]
unpackSubHeader(s, pos) ==
    LET h == BSlice(s, pos, sub_header_size)
        mel_sig == BytesSig(h)
    IN IF mel_sig = "XXXX"
       THEN [sig  |-> BytesSig(BSlice(s, pos + sub_header_size + 4, sub_header_size)),
             size |-> UnLE4(BSlice(s, pos + sub_header_size, 4)),
             pos  |-> pos + 2 * sub_header_size + 4]
       ELSE [sig  |-> mel_sig,
             size |-> UnLE2(BDrop(h, 4)),
             pos  |-> pos + sub_header_size]

\* SubrecordBlob.__init__ at offset pos of stream s:
\* [mel_sig, mel_data (<<>> for None, else <<bytes>>), pos (the offset after it)]
SubrecordBlob_read(s, h, mel_sigs) ==
    [mel_sig  |-> h.sig,
     mel_data |-> IF mel_sigs = {} \/ h.sig \in mel_sigs
                  THEN <<BSlice(s, h.pos, h.size)>>
                  ELSE <<>>,
     pos      |-> h.pos + h.size]

SubrecordBlob(s, pos, mel_sigs) == SubrecordBlob_read(s, unpackSubHeader(s, pos), mel_sigs)

(***************************************************************************)
(* Record elements (basic_elements.py).  An element is a record naming its *)
(* class (kind), its signature and the attribute(s) it loads and dumps.    *)
(* Attribute values: a struct field is an integer; the attribute of a      *)
(* MelBase (bytes) or of a MelFid (integer) is <<>> for None, else <<v>>;  *)
(* the attribute of a MelGroups is the list of its objects.                *)
(***************************************************************************)
None == <<>>
Some(v) == <<v>>

MelBase(mel_sig, attr) == [kind |-> "MelBase", sig |-> mel_sig, attr |-> attr]
MelFid(mel_sig, attr) == [kind |-> "MelFid", sig |-> mel_sig, attr |-> attr]
MelNull(mel_sig) == [kind |-> "MelNull", sig |-> mel_sig]
\* widths: the bytes of each field of the struct format ('B' 1, 'H' 2, 'I' 4)
MelStruct(mel_sig, widths, attrs, defaults, formAttrs) ==
    [kind |-> "MelStruct", sig |-> mel_sig, widths |-> widths, attrs |-> attrs,
     defaults |-> defaults, formAttrs |-> formAttrs]
MelOptStruct(mel_sig, widths, attrs, defaults, formAttrs) ==
    [kind |-> "MelOptStruct", sig |-> mel_sig, widths |-> widths, attrs |-> attrs,
     defaults |-> defaults, formAttrs |-> formAttrs]
MelGroups(attr, elements) == [kind |-> "MelGroups", attr |-> attr, elements |-> elements]

IsStruct(el) == el.kind \in {"MelStruct", "MelOptStruct"}

RECURSIVE SumSeq(_)
SumSeq(q) == IF q = <<>> THEN 0 ELSE q[1] + SumSeq(Tail(q))

\* 256 ** w
RECURSIVE Pow256(_)
Pow256(w) == IF w = 0 THEN 1 ELSE 256 * Pow256(w - 1)

\* f with f[k] set to v (setattr)
SetAttr(f, k, v) == (k :> v) @@ f

\* MelBase.signatures / MelSequential._possible_sigs
Signatures(el) ==
    IF el.kind = "MelGroups"
    THEN {el.elements[i].sig : i \in 1 .. Len(el.elements)}
    ELSE {el.sig}

\* getSlotsUsed
SlotsUsed(el) ==
    CASE el.kind \in {"MelBase", "MelFid", "MelGroups"} -> {el.attr}
      [] IsStruct(el) -> {el.attrs[i] : i \in 1 .. Len(el.attrs)}
      [] OTHER -> {}

\* the offset of field i of a struct in its payload
FieldOffset(widths, i) == SumSeq(SubSeq(widths, 1, i - 1))

\* struct.unpack of one unsigned little-endian field
RECURSIVE UnLE(_, _)
UnLE(s, w) == IF w = 0 THEN 0 ELSE BAt(s, 1) + 256 * UnLE(BDrop(s, 1), w - 1)

\* struct.pack accepts v for an unsigned field of w bytes (w >= 1): 0 <= v < 256^w
Packable(v, w) == v >= 0 /\ (v \div Pow256(w - 1)) < 256

(***************************************************************************)
(* load_mel: [ok, attrs].  ins.unpack raises when size_ is not the size    *)
(* of the struct; every exception is caught by MelRecord.loadData.         *)
(***************************************************************************)
RECURSIVE LoadStructFields(_, _, _, _)
LoadStructFields(el, target, payload, i) ==
    IF i > Len(el.attrs) THEN target
    ELSE LoadStructFields(el,
            SetAttr(target, el.attrs[i],
                    UnLE(BDrop(payload, FieldOffset(el.widths, i)), el.widths[i])),
            payload, i + 1)

\* MelBase.load_mel, _MelNum.load_mel, MelNull.load_mel, MelStruct.load_mel
LoadLeaf(el, target, payload) ==
    CASE el.kind = "MelBase" -> [ok |-> TRUE, attrs |-> SetAttr(target, el.attr, Some(payload))]
      [] el.kind = "MelFid" ->
            IF BLen(payload) = 4
            THEN [ok |-> TRUE, attrs |-> SetAttr(target, el.attr, Some(UnLE4(payload)))]
            ELSE [ok |-> FALSE, attrs |-> target]
      [] el.kind = "MelNull" -> [ok |-> TRUE, attrs |-> target]
      [] IsStruct(el) ->
            IF BLen(payload) = SumSeq(el.widths)
            THEN [ok |-> TRUE, attrs |-> LoadStructFields(el, target, payload, 1)]
            ELSE [ok |-> FALSE, attrs |-> target]

\* MelGroup.getLoaders: the child element that loads sub_type
GroupLoader(el, sub_type) ==
    LET idx == {i \in 1 .. Len(el.elements) : el.elements[i].sig = sub_type}
    IN el.elements[CHOOSE i \in idx : \A j \in idx : j <= i]

\* MelGroups.__init__: self._init_sigs = self.elements[0].signatures
init_sigs_any_child(el) == Signatures(el)

init_sigs(el) == Signatures(el.elements[1])

\* MelGroups.load_mel: the last of the objects objs is loaded into, and the list
\* is the record's attribute
MelGroups_store(el, record, objs, r) ==
    [ok |-> r.ok,
     attrs |-> SetAttr(record, el.attr, [objs EXCEPT ![Len(objs)] = r.attrs])]

MelGroups_load_last(el, record, objs, sub_type, payload) ==
    MelGroups_store(el, record, objs,
                    LoadLeaf(GroupLoader(el, sub_type), objs[Len(objs)], payload))

\* MelGroups.load_mel with MelGroups._new_object
MelGroups_load_mel(el, record, sub_type, payload) ==
    IF sub_type \in init_sigs(el)
    THEN \* a new object, appended, then loaded into
         MelGroups_load_last(el, record, Append(record[el.attr], <<>>),
                             sub_type, payload)
    ELSE IF record[el.attr] = <<>>
    THEN \* getattr(record, self.attr)[-1] raises IndexError
         [ok |-> FALSE, attrs |-> record]
    ELSE MelGroups_load_last(el, record, record[el.attr], sub_type, payload)

load_mel(el, record, sub_type, payload) ==
    IF el.kind = "MelGroups"
    THEN MelGroups_load_mel(el, record, sub_type, payload)
    ELSE LoadLeaf(el, record, payload)

(***************************************************************************)
(* pack_subrecord_data and dumpData: [raised, bytes], bytes being what the *)
(* element writes to out (nothing when pack_subrecord_data returns None).  *)
(***************************************************************************)
RECURSIVE PackFields(_, _, _)
PackFields(el, record, i) ==
    IF i > Len(el.attrs) THEN <<>>
    ELSE BCat(LE(record[el.attrs[i]], el.widths[i]), PackFields(el, record, i + 1))

\* self._packer(*values) raises struct_error
PackerRejects(el, record) ==
    \E i \in 1 .. Len(el.attrs) : ~Packable(record[el.attrs[i]], el.widths[i])

\* MelStruct.pack_subrecord_data: [raised, value (None or Some(bytes))]
MelStruct_pack_raising(el, record) ==
    IF PackerRejects(el, record)
    THEN [raised |-> TRUE, value |-> None]
    ELSE [raised |-> FALSE, value |-> Some(PackFields(el, record, 1))]

MelStruct_pack_subrecord_data(el, record) ==
    IF PackerRejects(el, record)
    THEN \* except struct_error: return None
         [raised |-> FALSE, value |-> None]
    ELSE [raised |-> FALSE, value |-> Some(PackFields(el, record, 1))]

\* MelOptStruct.pack_subrecord_data
MelOptStruct_pack_always(el, record) == MelStruct_pack_subrecord_data(el, record)

MelOptStruct_pack_subrecord_data(el, record) ==
    IF \E i \in 1 .. Len(el.attrs) : record[el.attrs[i]] # el.defaults[i]
    THEN MelStruct_pack_subrecord_data(el, record)
    ELSE [raised |-> FALSE, value |-> None]

\* _MelNum.pack_subrecord_data (MelFid is a MelUInt32): struct_error is not caught
MelNum_pack_subrecord_data(el, record) ==
    IF record[el.attr] = None THEN [raised |-> FALSE, value |-> None]
    ELSE IF Packable(record[el.attr][1], 4)
    THEN [raised |-> FALSE, value |-> Some(LE(record[el.attr][1], 4))]
    ELSE [raised |-> TRUE, value |-> None]

pack_subrecord_data(el, record) ==
    CASE el.kind = "MelBase" -> [raised |-> FALSE, value |-> record[el.attr]]
      [] el.kind = "MelFid" -> MelNum_pack_subrecord_data(el, record)
      [] el.kind = "MelStruct" -> MelStruct_pack_subrecord_data(el, record)
      [] el.kind = "MelOptStruct" -> MelOptStruct_pack_subrecord_data(el, record)

\* out.write(...) of two writes in a row; an exception of either is raised on
\* and what was written is lost with the buffer
WriteBoth(d, rest) ==
    IF d.raised \/ rest.raised THEN [raised |-> TRUE, bytes |-> Empty]
    ELSE [raised |-> FALSE, bytes |-> BCat(d.bytes, rest.bytes)]

\* MelBase.dumpData once pack_subrecord_data returned v
MelBase_write(mel_sig, v) ==
    IF v.raised THEN [raised |-> TRUE, bytes |-> Empty]
    ELSE IF v.value = None THEN [raised |-> FALSE, bytes |-> Empty]
    ELSE [raised |-> FALSE, bytes |-> packSub(mel_sig, v.value[1])]

\* MelBase.dumpData (MelNull.dumpData writes nothing)
MelBase_dumpData(el, record) ==
    IF el.kind = "MelNull" THEN [raised |-> FALSE, bytes |-> Empty]
    ELSE MelBase_write(el.sig, pack_subrecord_data(el, record))

\* _MelObject.__getattr__ for the attribute of a leaf child: a MelBase or MelFid
\* attribute never set reads as its default, None
ObjectWithDefaults(el, target) ==
    [a \in UNION {SlotsUsed(el.elements[i]) : i \in 1 .. Len(el.elements)} |->
        IF a \in DOMAIN target THEN target[a] ELSE None]

\* for element in elements: element.dumpData(target, out)
RECURSIVE DumpLeaves(_, _, _)
DumpLeaves(elements, target, i) ==
    IF i > Len(elements) THEN [raised |-> FALSE, bytes |-> Empty]
    ELSE WriteBoth(MelBase_dumpData(elements[i], target),
                   DumpLeaves(elements, target, i + 1))

\* MelGroups.dumpData
RECURSIVE MelGroups_dumpData(_, _, _)
MelGroups_dumpData(el, objs, k) ==
    IF k > Len(objs) THEN [raised |-> FALSE, bytes |-> Empty]
    ELSE WriteBoth(DumpLeaves(el.elements, ObjectWithDefaults(el, objs[k]), 1),
                   MelGroups_dumpData(el, objs, k + 1))

dumpData(el, record) ==
    IF el.kind = "MelGroups" THEN MelGroups_dumpData(el, record[el.attr], 1)
    ELSE MelBase_dumpData(el, record)

(***************************************************************************)
(* Element sets (record_structs.py, MelSet)                                *)
(***************************************************************************)
\* MelSet.loaders after __init__: getLoaders of each element in order, a later
\* element replacing an earlier one
HasLoader(elements, sub_type) ==
    \E i \in 1 .. Len(elements) : sub_type \in Signatures(elements[i])

Loader(elements, sub_type) ==
    LET idx == {i \in 1 .. Len(elements) : sub_type \in Signatures(elements[i])}
    IN elements[CHOOSE i \in idx : \A j \in idx : j <= i]

\* the default of attribute a as element el registers it
ElementDefault(el, a) ==
    CASE el.kind \in {"MelBase", "MelFid"} -> None
      [] el.kind = "MelGroups" -> <<>>
      [] IsStruct(el) ->
            el.defaults[CHOOSE i \in 1 .. Len(el.attrs) : el.attrs[i] = a]

\* the attributes of a record of the set, each at its default
Defaulters(elements) ==
    LET slots == UNION {SlotsUsed(elements[i]) : i \in 1 .. Len(elements)}
    IN [a \in slots |->
          LET idx == {i \in 1 .. Len(elements) : a \in SlotsUsed(elements[i])}
          IN ElementDefault(elements[CHOOSE i \in idx : \A j \in idx : j <= i], a)]

\* hasFids
HasFids(el) ==
    CASE el.kind = "MelFid" -> TRUE
      [] IsStruct(el) -> el.formAttrs # {}
      [] el.kind = "MelGroups" ->
            \E i \in 1 .. Len(el.elements) : el.elements[i].kind = "MelFid"
      [] OTHER -> FALSE

\* MelSet.formElements, as the indices of the elements
FormElements(elements) == {i \in 1 .. Len(elements) : HasFids(elements[i])}

\* MelSet.dumpData: an exception of an element is raised again
RECURSIVE MelSet_dumpData(_, _, _)
MelSet_dumpData(elements, record, i) ==
    IF i > Len(elements) THEN [raised |-> FALSE, bytes |-> Empty]
    ELSE WriteBoth(dumpData(elements[i], record),
                   MelSet_dumpData(elements, record, i + 1))

(***************************************************************************)
(* MelRecord.loadData: the subrecords of stream s from offset pos to       *)
(* endPos are loaded into record.  [ok, attrs, n (subrecords loaded),      *)
(* pos (where loading stopped)]                                            *)
(***************************************************************************)
RECURSIVE loadData(_, _, _, _, _, _)

\* after load_mel of the subrecord of header h returned r
loadData_loaded(elements, r, s, h, endPos, n) ==
    IF r.ok
    THEN loadData(elements, r.attrs, s, h.pos + h.size, endPos, n + 1)
    ELSE [ok |-> FALSE, attrs |-> r.attrs, n |-> n, pos |-> h.pos,
          why |-> "load_mel", sub_type |-> h.sig, sub_size |-> h.size]

loadData_sub_skips_unknown(elements, record, s, h, endPos, n) ==
    IF ~HasLoader(elements, h.sig)
    THEN loadData(elements, record, s, h.pos + h.size, endPos, n)
    ELSE IF h.pos + h.size > endPos
    THEN [ok |-> FALSE, attrs |-> record, n |-> n, pos |-> h.pos,
          why |-> "load_mel", sub_type |-> h.sig, sub_size |-> h.size]
    ELSE loadData_loaded(elements,
            load_mel(Loader(elements, h.sig), record, h.sig, BSlice(s, h.pos, h.size)),
            s, h, endPos, n)

\* after unpackSubHeader returned h
loadData_sub(elements, record, s, h, endPos, n) ==
    IF ~HasLoader(elements, h.sig)
    THEN [ok |-> FALSE, attrs |-> record, n |-> n, pos |-> h.pos,
          why |-> "KeyError", sub_type |-> h.sig, sub_size |-> h.size]
    ELSE IF h.pos + h.size > endPos
    THEN [ok |-> FALSE, attrs |-> record, n |-> n, pos |-> h.pos,
          why |-> "load_mel", sub_type |-> h.sig, sub_size |-> h.size]
    ELSE loadData_loaded(elements,
            load_mel(Loader(elements, h.sig), record, h.sig, BSlice(s, h.pos, h.size)),
            s, h, endPos, n)

loadData(elements, record, s, pos, endPos, n) ==
    IF pos = endPos
    THEN [ok |-> TRUE, attrs |-> record, n |-> n, pos |-> pos, why |-> "",
          sub_type |-> "", sub_size |-> 0]
    ELSE IF pos > endPos \/ pos + sub_header_size > endPos
    THEN \* ins.atEnd / ins.unpack raise: the stream ends inside a subrecord
         [ok |-> FALSE, attrs |-> record, n |-> n, pos |-> pos, why |-> "reader",
          sub_type |-> "", sub_size |-> 0]
    ELSE loadData_sub(elements, record, s, unpackSubHeader(s, pos), endPos, n)

(***************************************************************************)
(* mapFids                                                                 *)
(***************************************************************************)
\* the caller's mapper: identifier x is sent to y, None stays None
Mapper(x, y, fid) == IF fid = x THEN y ELSE fid

\* MelFid.mapFids: [attrs, called (the attributes function was called for)]
MelFid_mapFids_always_save(el, record, x, y, save) ==
    [attrs |-> IF record[el.attr] = None THEN record
               ELSE SetAttr(record, el.attr, Some(Mapper(x, y, record[el.attr][1]))),
     called |-> <<el.attr>>]

MelFid_mapFids(el, record, x, y, save) ==
    LET fid == record[el.attr]
        result == IF fid = None THEN None ELSE Some(Mapper(x, y, fid[1]))
    IN [attrs |-> IF save THEN SetAttr(record, el.attr, result) ELSE record,
        called |-> <<el.attr>>]

\* MelStruct.mapFids over self.formAttrs
RECURSIVE MelStruct_mapFids(_, _, _, _, _, _)
MelStruct_mapFids(el, record, x, y, save, todo) ==
    IF todo = {} THEN [attrs |-> record, called |-> <<>>]
    ELSE LET a == CHOOSE b \in todo : TRUE
             result == Mapper(x, y, record[a])
             rest == MelStruct_mapFids(el,
                        IF save THEN SetAttr(record, a, result) ELSE record,
                        x, y, save, todo \ {a})
         IN [attrs |-> rest.attrs, called |-> <<a>> \o rest.called]

\* MelSet.mapFids over self.formElements
RECURSIVE MelSet_mapFids(_, _, _, _, _, _)
MelSet_mapFids(elements, record, x, y, save_fids, todo) ==
    IF todo = {} THEN [attrs |-> record, called |-> <<>>]
    ELSE LET i == CHOOSE j \in todo : TRUE
             el == elements[i]
             r == IF el.kind = "MelFid"
                  THEN MelFid_mapFids(el, record, x, y, save_fids)
                  ELSE MelStruct_mapFids(el, record, x, y, save_fids, el.formAttrs)
             rest == MelSet_mapFids(elements, r.attrs, x, y, save_fids, todo \ {i})
         IN [attrs |-> rest.attrs, called |-> r.called \o rest.called]

(***************************************************************************)
(* Records (record_structs.py, MreRecord and MelRecord)                    *)
(***************************************************************************)
\* MreRecord.flags1_: deleted (bit 5) and compressed (bit 18)
FlagDeleted == 32
FlagCompressed == 262144

HasFlag(flags1, bit) == (flags1 \div bit) % 2 = 1

\* RecHeader.pack_head of a record header: signature, size, flags1, fid, flags2;
\* of a group header: GRUP, size, label, group type, stamp
pack_head(header) ==
    IF header.recType = "GRUP"
    THEN BCatAll(<<SigBytes("GRUP"), LE(header.size, 4), header.raw_label,
                   LE(header.groupType, 4), LE(header.stamp, 4)>>)
    ELSE BCatAll(<<SigBytes(header.recType), LE(header.size, 4),
                   LE(header.flags1, 4), LE(header.fid, 4), LE(header.flags2, 4)>>)

\* zlib.compress / zlib.decompress: the compressed form is kept abstract, a
\* one-byte stream header (0x78) before the data; decompress raises on bytes
\* that do not start with it
ZlibHead == 120
zlib_compress(d) == BCat(Rep(1, ZlibHead), d)
zlib_ok(z) == z # <<>> /\ BAt(z, 1) = ZlibHead
zlib_decompress(z) == BDrop(z, 1)

getDecompressed_unchecked(rec) ==
    IF ~HasFlag(rec.flags1, FlagCompressed)
    THEN [raised |-> FALSE, err |-> "", bytes |-> rec.data[1],
          size |-> BLen(rec.data[1])]
    ELSE IF BLen(rec.data[1]) < 4
    THEN [raised |-> TRUE, err |-> "struct.error", bytes |-> Empty, size |-> 0]
    ELSE IF ~zlib_ok(BDrop(rec.data[1], 4))
    THEN [raised |-> TRUE, err |-> "zlib.error", bytes |-> Empty, size |-> 0]
    ELSE [raised |-> FALSE, err |-> "", bytes |-> zlib_decompress(BDrop(rec.data[1], 4)),
          size |-> BLen(zlib_decompress(BDrop(rec.data[1], 4)))]

\* MreRecord.getDecompressed: [raised, err, bytes, size]
getDecompressed(rec) ==
    IF ~HasFlag(rec.flags1, FlagCompressed)
    THEN [raised |-> FALSE, err |-> "", bytes |-> rec.data[1],
          size |-> BLen(rec.data[1])]
    ELSE IF BLen(rec.data[1]) < 4
    THEN [raised |-> TRUE, err |-> "struct.error", bytes |-> Empty, size |-> 0]
    ELSE IF ~zlib_ok(BDrop(rec.data[1], 4))
    THEN [raised |-> TRUE, err |-> "zlib.error", bytes |-> Empty, size |-> 0]
    ELSE LET decomp == zlib_decompress(BDrop(rec.data[1], 4))
         IN IF BLen(decomp) # UnLE4(BTake(rec.data[1], 4))
            THEN [raised |-> TRUE, err |-> "ModError", bytes |-> Empty, size |-> 0]
            ELSE [raised |-> FALSE, err |-> "", bytes |-> decomp,
                  size |-> BLen(decomp)]

\* ModDetails.readFromMod.getRecordReader for the header and the blob read from
\* the file: [raised, err, bytes, size]
getRecordReader(header, blob) ==
    getDecompressed([flags1 |-> header.flags1, data |-> Some(blob)])

\* MreRecord.iterate_subrecords with packSub of each: the loop of
\* MreRecord.dumpData over the subrecords of s from pos
RECURSIVE RepackSubrecords(_, _)

RepackSubrecords_from(s, subrec) ==
    BCat(packSub(subrec.mel_sig, subrec.mel_data[1]), RepackSubrecords(s, subrec.pos))

RepackSubrecords(s, pos) ==
    IF pos >= BLen(s) THEN Empty
    ELSE RepackSubrecords_from(s, SubrecordBlob(s, pos, {}))

\* MreRecord.dumpData once getDecompressed returned d
MreRecord_repack(d) ==
    IF d.raised THEN [raised |-> TRUE, bytes |-> Empty]
    ELSE [raised |-> FALSE, bytes |-> RepackSubrecords(d.bytes, 0)]

\* MreRecord.dumpData / MelRecord.dumpData into a fresh buffer: [raised, bytes]
Record_dumpData(elements, rec) ==
    IF rec.cls = "MelRecord" THEN MelSet_dumpData(elements, rec.attrs, 1)
    ELSE IF rec.data = None THEN [raised |-> TRUE, bytes |-> Empty]
    ELSE IF rec.data[1] = Empty THEN [raised |-> FALSE, bytes |-> Empty]
    ELSE MreRecord_repack(getDecompressed(rec))

\* MreRecord.getSize: [raised, rec, ret]
\* self.data = ...; self.size = len(self.data); self.setChanged(False)
getSize_keeps_changed(rec, data) ==
    [raised |-> FALSE,
     rec |-> [rec EXCEPT !.data = Some(data), !.size = BLen(data)],
     ret |-> BLen(data)]

getSize_set(rec, data) ==
    [raised |-> FALSE,
     rec |-> [rec EXCEPT !.data = Some(data), !.size = BLen(data), !.changed = FALSE],
     ret |-> BLen(data)]

getSize_pack_marks_clean(rec, d) ==
    IF d.raised THEN [raised |-> TRUE, rec |-> [rec EXCEPT !.changed = FALSE], ret |-> 0]
    ELSE getSize_set(rec, IF HasFlag(rec.flags1, FlagCompressed)
                          THEN BCat(LE(BLen(d.bytes), 4), zlib_compress(d.bytes))
                          ELSE d.bytes)

\* once dumpData returned d: the bytes are compressed if the record is
getSize_pack(rec, d) ==
    IF d.raised THEN [raised |-> TRUE, rec |-> rec, ret |-> 0]
    ELSE getSize_set(rec, IF HasFlag(rec.flags1, FlagCompressed)
                          THEN BCat(LE(BLen(d.bytes), 4), zlib_compress(d.bytes))
                          ELSE d.bytes)

getSize_always_packs(elements, rec) == getSize_pack(rec, Record_dumpData(elements, rec))

getSize(elements, rec) ==
    IF ~rec.changed THEN [raised |-> FALSE, rec |-> rec, ret |-> rec.size]
    ELSE getSize_pack(rec, Record_dumpData(elements, rec))

\* MreRecord.__init__(header, ins): the fields of the header and the bytes read
MreRecord_init(cls, header, data, attrs) ==
    [cls |-> cls, rec_sig |-> header.recType, fid |-> header.fid,
     flags1 |-> header.flags1, size |-> header.size, flags2 |-> header.flags2,
     changed |-> FALSE, data |-> Some(data), attrs |-> attrs]

\* MelRecord.error_string('loading', file_offset, sub_size, sub_type), the text
\* given to bolt.deprint, as what it names
error_string(rec, l) ==
    [op |-> "loading", rec_str |-> rec.rec_sig, fid |-> rec.fid,
     eid |-> IF "eid" \in DOMAIN l.attrs THEN l.attrs["eid"] ELSE None,
     subrecord |-> l.sub_type, sub_size |-> l.sub_size, file_pos |-> l.pos]

\* the exception MelRecord.loadData raises, as what its message names:
\* ModError(ins.inName, 'Unexpected subrecord: <record>.<subrecord>') for a
\* signature without loader, ModError(ins.inName, repr(error)) for an exception
\* of load_mel; an exception of the reader itself is not wrapped
loadData_error(rec, l) ==
    CASE l.why = "KeyError" ->
           [type |-> "ModError", in_name |-> "ins",
            message |-> [rec_str |-> rec.rec_sig, sub_type |-> l.sub_type]]
      [] l.why = "load_mel" ->
           [type |-> "ModError", in_name |-> "ins", message |-> [cause |-> "load_mel"]]
      [] OTHER -> [type |-> "ModSizeError", in_name |-> "ins",
                   message |-> [cause |-> "reader"]]

\* MelRecord.loadData returned l: an exception is raised on as a ModError
MelRecord_loaded(rec, l) ==
    [ok |-> l.ok, rec |-> IF l.ok THEN [rec EXCEPT !.attrs = l.attrs] ELSE rec,
     exc |-> IF l.ok THEN None ELSE Some(loadData_error(rec, l)),
     log |-> IF l.why \in {"KeyError", "load_mel"} THEN Some(error_string(rec, l))
             ELSE None,
     decoded |-> l.n]

\* do_unpack, once getDecompressed returned d
MelRecord_unpack(elements, rec, d) ==
    IF d.raised
    THEN [ok |-> FALSE, rec |-> rec, log |-> None, decoded |-> 0,
          exc |-> Some([type |-> d.err, in_name |-> "ins",
                        message |-> [cause |-> "getDecompressed"]])]
    ELSE MelRecord_loaded(rec,
            loadData(elements, rec.attrs, d.bytes, 0, BLen(d.bytes), 0))

\* MelRecord.__init__(header, ins, do_unpack=True) and MreRecord.__init__(header,
\* ins): [ok, rec]
Record_init(elements, cls, header, data) ==
    IF cls = "MelRecord"
    THEN MelRecord_unpack(elements,
            MreRecord_init(cls, header, data, Defaulters(elements)),
            getDecompressed(MreRecord_init(cls, header, data, <<>>)))
    ELSE [ok |-> TRUE, rec |-> MreRecord_init(cls, header, data, <<>>),
          exc |-> None, log |-> None, decoded |-> 0]

\* self.data = ins.read(self.size, ...): the wrapped file stream moves on
reader_read(reader, n) == [reader EXCEPT !.pos = @ + n]

\* ins.ins, ins.size = self.getDecompressed(); ins.debug_offset = ... : nothing
\* is assigned when getDecompressed raises
reader_swap(reader, d, file_offset) ==
    IF d.raised THEN reader
    ELSE [reader EXCEPT !.ins = "decompressed", !.size = d.size,
                        !.debug_offset = @ + file_offset]

reader_restore_unless_raised(reader, saved, raised) ==
    IF raised THEN reader
    ELSE [reader EXCEPT !.ins = saved.ins, !.size = saved.size,
                        !.debug_offset = saved.debug_offset]

\* finally: ins.ins, ins.size = ins_ins, ins_size; ins.debug_offset = ...
reader_restore(reader, saved, raised) ==
    [reader EXCEPT !.ins = saved.ins, !.size = saved.size,
                   !.debug_offset = saved.debug_offset]

\* the reader while loadData runs (MreRecord itself returns before the swap)
Record_init_swapped(cls, reader, header, d) ==
    IF cls = "MreRecord" THEN reader_read(reader, header.size)
    ELSE reader_swap(reader_read(reader, header.size), d, reader.pos)

\* the reader MreRecord.__init__ leaves, having returned (ok) or raised
Record_init_reader(cls, reader, header, d, ok) ==
    IF cls = "MreRecord" THEN reader_read(reader, header.size)
    ELSE reader_restore(Record_init_swapped(cls, reader, header, d),
                        reader_read(reader, header.size), ~ok)

\* MreRecord.dump: [raised, header (the record's header object), written]
dump(rec, header) ==
    IF rec.changed THEN [raised |-> TRUE, header |-> header, written |-> Empty]
    ELSE IF (rec.data = None \/ rec.data = Some(Empty))
            /\ ~HasFlag(rec.flags1, FlagDeleted) /\ rec.size > 0
    THEN [raised |-> TRUE, header |-> header, written |-> Empty]
    ELSE LET h == IF rec.rec_sig # "GRUP"
                  THEN [header EXCEPT !.size = rec.size, !.flags1 = rec.flags1,
                                      !.fid = rec.fid]
                  ELSE [header EXCEPT !.size = rec.size]
         IN [raised |-> FALSE, header |-> h,
             written |-> BCat(pack_head(h),
                              IF rec.size > 0 THEN rec.data[1] ELSE Empty)]

(***************************************************************************)
(* Header codec: a subrecord is written and read back                      *)
(***************************************************************************)
\* how far around 0 and around 0xFFFF the payload lengths range
LenSlack == 2

\* a payload length well above 0xFFFF
BigLen == 70000

PayloadLens ==
    (0 .. LenSlack) \cup ((MaxSubSize - LenSlack) .. (MaxSubSize + LenSlack))
        \cup {BigLen}

\* the subrecord signatures written (XXXX is the codec's own marker)
SubSigs == {"EDID", "XCLL", "DATA"}

FillBytes == {0, 65}

NoHdr == [sig |-> "", size |-> 0, pos |-> 0]
NoBlob == [mel_sig |-> "", mel_data |-> <<>>, pos |-> 0]

SubIdle ==
    /\ s_pc = "off" /\ s_sig = "" /\ s_data = <<>> /\ s_out = <<>>
    /\ s_hdr = NoHdr /\ s_blob = NoBlob

RecIdle ==
    /\ r_pc = "off" /\ r_hdr = <<>> /\ r_ins = <<>> /\ r_rec = <<>> /\ r_out = <<>>
    /\ r_ret = 0 /\ r_err = "" /\ r_again = <<>> /\ r_hist = <<>>

ScanIdle ==
    /\ k_pc = "off" /\ k_in = <<>> /\ k_pos = 0 /\ k_ctx = <<>> /\ k_udr = <<>>
    /\ k_parents = <<>> /\ k_fog = <<>> /\ k_posvar = <<>> /\ k_ret = <<>>
    /\ k_log = <<>> /\ k_ins = "closed"

BatchIdle == b_pc = "off" /\ b_in = <<>> /\ b_i = 0 /\ b_ret = <<>> /\ b_caller = <<>>

SetIdle ==
    /\ m_pc = "off" /\ m_in = <<>> /\ m_i = 0 /\ m_defaulters = <<>>
    /\ m_loaders = <<>> /\ m_exc = <<>>

IterIdle ==
    /\ i_pc = "off" /\ i_sigs = {} /\ i_reader = "closed" /\ i_data = <<>> /\ i_pos = 0

LoadIdle ==
    /\ l_pc = "off" /\ l_in = <<>> /\ l_ins = <<>> /\ l_rec = <<>> /\ l_exc = <<>>

ObjIdle ==
    /\ o_pc = "off" /\ o_in = <<>> /\ o_obj = <<>> /\ o_ret = <<>>
    /\ o_misses = <<>> /\ o_errors = <<>> /\ o_n = 0

LateIdle == BatchIdle /\ SetIdle /\ IterIdle /\ LoadIdle /\ ObjIdle

FogIdle ==
    /\ f_pc = "off" /\ f_in = <<>> /\ f_pos = 0 /\ f_out = <<>> /\ f_fixed = {}
    /\ f_file = <<>> /\ f_ins = "closed" /\ f_temp = "absent" /\ f_backup = <<>>
    /\ f_log = <<>>

GrpIdle ==
    /\ g_pc = "off" /\ g_sigs = <<>> /\ g_in = <<>> /\ g_rec = <<>> /\ g_out = <<>>

SubInit ==
    /\ LateIdle
    /\ GrpIdle
    /\ RecIdle
    /\ ScanIdle
    /\ FogIdle
    /\ s_pc = "idle"
    /\ s_sig \in SubSigs
    /\ \E n \in PayloadLens, b \in FillBytes : s_data = Rep(n, b)
    /\ s_out = <<>>
    /\ s_hdr = NoHdr
    /\ s_blob = NoBlob

\* Subrecord.packSub(out, binary_data)
SubPack ==
    /\ s_pc = "idle"
    /\ s_out' = packSub(s_sig, s_data)
    /\ s_pc' = "packed"
    /\ UNCHANGED <<s_sig, s_data, s_hdr, s_blob, notSub>>

\* unpackSubHeader(ins) on the bytes written
SubUnpack ==
    /\ s_pc = "packed"
    /\ s_hdr' = unpackSubHeader(s_out, 0)
    /\ s_pc' = "unpacked"
    /\ UNCHANGED <<s_sig, s_data, s_out, s_blob, notSub>>

\* SubrecordBlob(ins, record_sig) on the bytes written
SubReadBlob ==
    /\ s_pc = "unpacked"
    /\ s_blob' = SubrecordBlob(s_out, 0, {})
    /\ s_pc' = "read"
    /\ UNCHANGED <<s_sig, s_data, s_out, s_hdr, notSub>>

SubNext == SubPack \/ SubUnpack \/ SubReadBlob

SpecSub == SubInit /\ [][SubNext]_vars

\* C4: a payload longer than 0xFFFF is written as an XXXX subrecord carrying the
\* length in 4 bytes, then the real header with stored size 0, then the payload;
\* a shorter one as the real header with its length and no marker; and
\* unpackSubHeader on the written bytes returns the real signature and length.
C4_OverflowTransparent ==
    LET L == BLen(s_data)
    IN /\ (s_pc \in {"packed", "unpacked", "read"} /\ L > MaxSubSize) =>
            /\ BLen(s_out) = L + 2 * sub_header_size + 4
            /\ BytesSig(BSlice(s_out, 0, 4)) = "XXXX"
            /\ UnLE2(BSlice(s_out, 4, 2)) = 4
            /\ UnLE4(BSlice(s_out, 6, 4)) = L
            /\ BytesSig(BSlice(s_out, 10, 4)) = s_sig
            /\ UnLE2(BSlice(s_out, 14, 2)) = 0
            /\ BDrop(s_out, 16) = s_data
       /\ (s_pc \in {"packed", "unpacked", "read"} /\ L <= MaxSubSize) =>
            /\ BLen(s_out) = L + sub_header_size
            /\ BytesSig(BSlice(s_out, 0, 4)) = s_sig
            /\ UnLE2(BSlice(s_out, 4, 2)) = L
            /\ BDrop(s_out, 6) = s_data
       /\ s_pc \in {"unpacked", "read"} =>
            /\ s_hdr.sig = s_sig
            /\ s_hdr.size = L
            /\ BSlice(s_out, s_hdr.pos, s_hdr.size) = s_data
            /\ s_hdr.pos + s_hdr.size = BLen(s_out)
       /\ s_pc = "read" =>
            /\ s_blob.mel_sig = s_sig
            /\ s_blob.mel_data = <<s_data>>

\* a 70000-byte payload has been written and its header read back
C4_Witness ==
    /\ s_pc = "unpacked"
    /\ BLen(s_data) = BigLen
    /\ s_hdr.size = BigLen

(***************************************************************************)
(* Repeating group: MelGroups('items', MelBase(SONE), MelBase(STWO))       *)
(***************************************************************************)
\* the longest subrecord sequence decoded
MaxGroupSubs == 5

GroupElements ==
    << MelGroups("items", <<MelBase("SONE", "first"), MelBase("STWO", "second")>>) >>

GroupSigSeqs ==
    UNION {[1 .. n -> {"SONE", "STWO"}] : n \in 1 .. MaxGroupSubs}

\* subrecord k of the input carries the one byte k
RECURSIVE GroupInput(_, _)
GroupInput(q, k) ==
    IF k > Len(q) THEN Empty
    ELSE BCatAll(<<SigBytes(q[k]), LE(1, 2), Rep(1, k), GroupInput(q, k + 1)>>)

GrpInit ==
    /\ LateIdle
    /\ SubIdle
    /\ RecIdle
    /\ ScanIdle
    /\ FogIdle
    /\ g_pc = "new"
    /\ g_sigs \in GroupSigSeqs
    /\ g_in = GroupInput(g_sigs, 1)
    /\ g_rec = Defaulters(GroupElements)
    /\ g_out = Empty

\* MelRecord.loadData over the subrecords
GrpLoad ==
    /\ g_pc = "new"
    /\ LET r == loadData(GroupElements, g_rec, g_in, 0, BLen(g_in), 0)
       IN /\ g_rec' = r.attrs
          /\ g_pc' = IF r.ok THEN "loaded" ELSE "failed"
    /\ UNCHANGED <<g_sigs, g_in, g_out, notGrp>>

\* MelSet.dumpData of the loaded record
GrpDump ==
    /\ g_pc = "loaded"
    /\ g_out' = MelSet_dumpData(GroupElements, g_rec, 1).bytes
    /\ g_pc' = "dumped"
    /\ UNCHANGED <<g_sigs, g_in, g_rec, notGrp>>

GrpNext == GrpLoad \/ GrpDump

SpecGrp == GrpInit /\ [][GrpNext]_vars

\* the group instance subrecord k belongs to: the number of SONE up to k
InstOf(k) == Cardinality({j \in 1 .. k : g_sigs[j] = "SONE"})

GroupAttr(sig) == IF sig = "SONE" THEN "first" ELSE "second"

MaxMutations == 1
MaxDumps == 1

RecElements ==
    << MelBase("EDID", "eid"),
       MelStruct("DATA", <<4, 1>>, <<"owner", "weight">>, <<0, 0>>, {"owner"}),
       MelOptStruct("XNAM", <<1, 1>>, <<"rank", "cnt">>, <<1, 0>>, {}),
       MelFid("NAME", "base"),
       MelNull("OBSO") >>

\* a subrecord as it lies in a plugin file: signature, 16-bit size, payload
RawSub(sig, payload) == BCatAll(<<SigBytes(sig), LE(BLen(payload), 2), payload>>)

\* the subrecords a record read from a file may hold, each slot present or not:
\* a DATA of the wrong size and a subrecord the set does not know are among them
EdidOpts == {Empty, RawSub("EDID", BCat(Rep(1, 65), Rep(1, 0)))}
DataOpts == {Empty, RawSub("DATA", BCat(LE(7, 4), LE(5, 1))), RawSub("DATA", Rep(3, 1))}
XnamOpts == {Empty, RawSub("XNAM", BCat(LE(1, 1), LE(0, 1))),
             RawSub("XNAM", BCat(LE(2, 1), LE(0, 1)))}
NameOpts == {Empty, RawSub("NAME", LE(7, 4))}
TailOpts == {Empty, RawSub("OBSO", Rep(2, 1)), RawSub("XCLC", Rep(1, 9))}

RecPayloads ==
    {BCatAll(<<e, d, x, n, t>>) :
        e \in EdidOpts, d \in DataOpts, x \in XnamOpts, n \in NameOpts, t \in TailOpts}

\* the values an attribute is changed to; 256 is a value the packer of a 'B'
\* field rejects and -1 one the packer of an 'I' field rejects
AttrVals(a) ==
    CASE a = "eid" -> {Some(BCat(Rep(1, 66), Rep(1, 0)))}
      [] a = "owner" -> {9, -1}
      [] a = "weight" -> {1, 256}
      [] a = "rank" -> {1, 3, 256}
      [] a = "cnt" -> {3, 256}
      [] a = "base" -> {None, Some(9), Some(-1)}

RecAttrs == {"eid", "owner", "weight", "rank", "cnt", "base"}

\* the identifiers a mapper is asked to map, and what it maps them to
MapFrom == {7, 9}
MapTo == {8}

\* bytes that follow the record in the stream
Trailer == Rep(3, 255)

RecInit ==
    /\ LateIdle
    /\ SubIdle
    /\ GrpIdle
    /\ ScanIdle
    /\ FogIdle
    /\ r_pc = "new"
    /\ \E cls \in {"MreRecord", "MelRecord"}, compressed \in BOOLEAN, p \in RecPayloads :
          LET stored == IF compressed
                        THEN BCat(LE(BLen(p), 4), zlib_compress(p))
                        ELSE p
          IN /\ r_hdr = [recType |-> "WEAP", size |-> BLen(stored),
                         flags1 |-> IF compressed THEN FlagCompressed ELSE 0,
                         fid |-> 256, flags2 |-> 0]
             /\ r_ins = [data |-> BCat(stored, Trailer), pos |-> 0, ins |-> "file",
                         size |-> BLen(stored) + BLen(Trailer), debug_offset |-> 24]
             /\ r_rec = [cls |-> cls]
    /\ r_out = Empty
    /\ r_ret = 0
    /\ r_err = ""
    /\ r_again = <<>>
    /\ r_hist = <<>>

\* the record is made from the header and the stream
RecConstruct ==
    /\ r_pc = "new"
    /\ \E c \in {Record_init(RecElements, r_rec.cls, r_hdr,
                              BSlice(r_ins.data, r_ins.pos, r_hdr.size))} :
          /\ r_rec' = c.rec
          /\ r_pc' = IF c.ok THEN "ready" ELSE "failed"
          /\ r_err' = IF c.ok THEN "" ELSE "ModError"
          /\ r_hist' = [size0 |-> r_hdr.size, raw |-> c.rec.data[1], ever |-> FALSE,
                        first |-> c.rec.attrs, nmut |-> 0, mut |-> <<>>,
                        mapped |-> <<>>, pre |-> <<>>, called |-> <<>>,
                        ndumps |-> 0, nenc |-> 0, last |-> "init",
                        wasDirty |-> FALSE, dumpRaised |-> FALSE,
                        exc |-> c.exc, log |-> c.log, decoded |-> c.decoded,
                        reader0 |-> r_ins,
                        swapped |-> Record_init_swapped(r_rec.cls, r_ins, r_hdr,
                                                        getDecompressed(c.rec))]
          /\ r_ins' = Record_init_reader(r_rec.cls, r_ins, r_hdr,
                                         getDecompressed(c.rec), c.ok)
    /\ UNCHANGED <<r_hdr, r_out, r_ret, r_again, notRec>>

\* an attribute of the record is assigned and setChanged() called
RecSetAttr ==
    /\ r_pc = "ready"
    /\ r_rec.cls = "MelRecord"
    /\ r_hist.nmut < MaxMutations
    /\ \E a \in RecAttrs : \E v \in AttrVals(a) :
          /\ r_rec.attrs[a] # v
          /\ r_rec' = [r_rec EXCEPT !.attrs = SetAttr(r_rec.attrs, a, v),
                                    !.changed = TRUE]
          /\ r_hist' = [r_hist EXCEPT !.ever = TRUE, !.nmut = @ + 1,
                                      !.mut = <<a, v>>, !.last = "setattr"]
    /\ r_err' = ""
    /\ UNCHANGED <<r_pc, r_hdr, r_ins, r_out, r_ret, r_again, notRec>>

\* MreRecord.setChanged()
RecSetChanged ==
    /\ r_pc = "ready"
    /\ r_hist.nmut < MaxMutations
    /\ r_rec' = [r_rec EXCEPT !.changed = TRUE]
    /\ r_hist' = [r_hist EXCEPT !.ever = TRUE, !.nmut = @ + 1, !.last = "setChanged"]
    /\ r_err' = ""
    /\ UNCHANGED <<r_pc, r_hdr, r_ins, r_out, r_ret, r_again, notRec>>

\* MreRecord.getSize()
RecGetSize ==
    /\ r_pc = "ready"
    /\ \E r \in {getSize(RecElements, r_rec)} :
          /\ r_rec' = r.rec
          /\ r_ret' = IF r.raised THEN r_ret ELSE r.ret
          /\ r_err' = IF r.raised THEN "Error" ELSE ""
          /\ r_hist' = [r_hist EXCEPT
                          !.last = "getSize", !.wasDirty = r_rec.changed,
                          !.nenc = IF r_rec.changed /\ ~r.raised THEN 1 ELSE @]
    /\ UNCHANGED <<r_pc, r_hdr, r_ins, r_out, r_again, notRec>>

\* MreRecord.dump(out)
RecDump ==
    /\ r_pc = "ready"
    /\ r_hist.ndumps < MaxDumps
    /\ \E d \in {dump(r_rec, r_hdr)} :
          /\ r_hdr' = d.header
          /\ r_out' = BCat(r_out, d.written)
          /\ r_err' = IF d.raised THEN "StateError" ELSE ""
          /\ r_hist' = [r_hist EXCEPT
                          !.last = "dump", !.wasDirty = r_rec.changed,
                          !.dumpRaised = @ \/ d.raised,
                          !.ndumps = IF d.raised THEN @ ELSE @ + 1]
    /\ UNCHANGED <<r_pc, r_ins, r_rec, r_ret, r_again, notRec>>

\* MelRecord.mapFids(mapper, save_fids)
RecMapFids ==
    /\ r_pc = "ready"
    /\ r_rec.cls = "MelRecord"
    /\ r_hist.mapped = <<>>
    /\ \E x \in MapFrom, y \in MapTo, save \in BOOLEAN :
          \E m \in {MelSet_mapFids(RecElements, r_rec.attrs, x, y, save,
                                    FormElements(RecElements))} :
             /\ r_rec' = [r_rec EXCEPT !.attrs = m.attrs]
             /\ r_hist' = [r_hist EXCEPT !.mapped = <<x, y, save>>,
                                         !.pre = r_rec.attrs, !.called = m.called,
                                         !.last = "mapFids"]
    /\ r_err' = ""
    /\ UNCHANGED <<r_pc, r_hdr, r_ins, r_out, r_ret, r_again, notRec>>

\* a second MelRecord is made, with do_unpack, from the header fields and the
\* bytes the record stores; the run ends with it
RecDecodeAgain ==
    /\ r_pc = "ready"
    /\ r_rec.cls = "MelRecord"
    /\ ~r_rec.changed
    /\ r_again = <<>>
    /\ \E c \in {Record_init(RecElements, "MelRecord",
                              [recType |-> r_rec.rec_sig, size |-> r_rec.size,
                               flags1 |-> r_rec.flags1, fid |-> r_rec.fid,
                               flags2 |-> r_rec.flags2],
                              r_rec.data[1])} :
          r_again' = << [ok |-> c.ok, attrs |-> c.rec.attrs] >>
    /\ r_hist' = [r_hist EXCEPT !.last = "again"]
    /\ r_err' = ""
    /\ r_pc' = "done"
    /\ UNCHANGED <<r_hdr, r_ins, r_rec, r_out, r_ret, notRec>>

RecNext ==
    \/ RecConstruct
    \/ RecSetAttr
    \/ RecSetChanged
    \/ RecGetSize
    \/ RecDump
    \/ RecDecodeAgain

SpecRec == RecInit /\ [][RecNext]_vars

\* a record is made and its form ids are mapped
MapNext ==
    \/ RecConstruct
    \/ RecMapFids

SpecMap == RecInit /\ [][MapNext]_vars

\* the record after construction is usable
RecReady == r_pc \in {"ready", "done"}

\* the subrecord signatures of the byte string s, in order ("?" if s is cut short)
RECURSIVE SubSigsOf(_, _)
SubSigsOf(s, pos) ==
    IF pos >= BLen(s) THEN <<>>
    ELSE IF pos + sub_header_size > BLen(s) THEN <<"?">>
    ELSE <<BytesSig(BSlice(s, pos, 4))>>
           \o SubSigsOf(s, pos + sub_header_size + UnLE2(BSlice(s, pos + 4, 2)))

HasSub(s, sig) == \E i \in DOMAIN SubSigsOf(s, 0) : SubSigsOf(s, 0)[i] = sig

\* the subrecord bytes the record stores, the size prefix and the compression
\* of a compressed record taken off
StoredPlain ==
    IF HasFlag(r_rec.flags1, FlagCompressed)
    THEN BDrop(r_rec.data[1], 5)
    ELSE r_rec.data[1]

\* C1: a record read from a stream and never marked changed reports as its size
\* the size of its header, and a dump of it writes the packed header followed by
\* exactly the bytes that were read; no getSize or dump of it raises.
C1_UnchangedVerbatim ==
    (RecReady /\ ~r_hist.ever) =>
        /\ r_err = ""
        /\ ~r_rec.changed
        /\ r_rec.size = r_hist.size0
        /\ r_rec.data = Some(BTake(r_ins.data, r_hist.size0))
        /\ (r_hist.last = "getSize" => r_ret = r_hist.size0)
        /\ r_out = IF r_hist.ndumps = 0 THEN Empty
                   ELSE BCatAll([k \in 1 .. r_hist.ndumps |->
                           BCat(BCatAll(<<SigBytes("WEAP"), LE(r_hist.size0, 4),
                                          LE(r_rec.flags1, 4), LE(256, 4), LE(0, 4)>>),
                                BTake(r_ins.data, r_hist.size0))])

\* an unchanged record whose bytes hold a subrecord a re-encoding would drop has
\* been sized and dumped
C1_Witness ==
    /\ RecReady
    /\ ~r_hist.ever
    /\ r_rec.cls = "MelRecord"
    /\ r_hist.last = "getSize"
    /\ r_hist.ndumps = 1
    /\ HasSub(StoredPlain, "OBSO")
    /\ BLen(r_out) = 20 + r_hist.size0

\* C2 (as the specification states it): after one attribute is changed to v, the
\* record is encoded and the bytes are decoded again, the attribute reads v and
\* every other attribute reads as after the first decode.
C2_RoundTrip ==
    (r_pc = "done" /\ r_hist.nmut = 1 /\ r_hist.mut # <<>>) =>
        /\ r_again[1].ok
        /\ \A a \in RecAttrs :
              r_again[1].attrs[a] =
                 IF a = r_hist.mut[1] THEN r_hist.mut[2] ELSE r_hist.first[a]

\* the round trip of C2 made with a value the field's packer accepts
C2_RoundTripPackable ==
    (r_pc = "done" /\ r_hist.nmut = 1 /\ r_hist.mut # <<>>
       /\ ~(r_hist.mut[1] \in {"weight", "rank", "cnt"} /\ r_hist.mut[2] = 256)
       /\ ~(r_hist.mut[1] = "owner" /\ r_hist.mut[2] = -1)) =>
        /\ r_again[1].ok
        /\ \A a \in RecAttrs :
              r_again[1].attrs[a] =
                 IF a = r_hist.mut[1] THEN r_hist.mut[2] ELSE r_hist.first[a]

\* the subrecords a MelRecord of RecElements with the attributes attrs encodes to,
\* written out field by field: EDID and NAME when set, DATA, XNAM when a field is
\* off its default, nothing for OBSO; a struct whose packer rejects a value
\* leaves its subrecord out
FreshEncoding(attrs) ==
    BCatAll(<<
        IF attrs["eid"] = None THEN Empty ELSE RawSub("EDID", attrs["eid"][1]),
        IF Packable(attrs["owner"], 4) /\ Packable(attrs["weight"], 1)
        THEN RawSub("DATA", LE(attrs["owner"], 4) \o <<attrs["weight"]>>)
        ELSE Empty,
        IF (attrs["rank"] # 1 \/ attrs["cnt"] # 0)
             /\ Packable(attrs["rank"], 1) /\ Packable(attrs["cnt"], 1)
        THEN RawSub("XNAM", <<attrs["rank"], attrs["cnt"]>>)
        ELSE Empty,
        IF attrs["base"] = None THEN Empty ELSE RawSub("NAME", LE(attrs["base"][1], 4)) >>)

\* the bytes an encoding of the record is to store, before compression
ExpectedPlain ==
    IF r_rec.cls = "MelRecord" THEN FreshEncoding(r_rec.attrs)
    ELSE IF HasFlag(r_rec.flags1, FlagCompressed) THEN BDrop(r_hist.raw, 5)
    ELSE r_hist.raw

\* getSize of a dirty record, when the encoding does not raise: the stored bytes
\* are the fresh encoding (compressed if the record is), the stored and the
\* returned size are their length and the dirty flag is clear
SizedDirty ==
    (RecReady /\ r_hist.wasDirty /\ r_hist.last = "getSize" /\ r_err = "") =>
        /\ ~r_rec.changed
        /\ r_rec.size = BLen(r_rec.data[1])
        /\ r_ret = r_rec.size
        /\ r_rec.data[1] = IF HasFlag(r_rec.flags1, FlagCompressed)
                           THEN LE(BLen(ExpectedPlain), 4) \o <<ZlibHead>>
                                   \o ExpectedPlain
                           ELSE ExpectedPlain

\* C3 (as the specification states it): a dirty record is re-encoded when it is
\* sized and also when it is dumped, and after either the dirty flag is clear.
C3_DumpReencodes ==
    /\ SizedDirty
    /\ (RecReady /\ r_hist.wasDirty /\ r_hist.last = "dump") =>
          /\ r_err = ""
          /\ ~r_rec.changed
          /\ r_hist.ndumps > 0

\* a step that is a dump of the record
DumpStep == r_pc = "ready" /\ r_hist'.last = "dump" /\ vars' # vars

\* C3 (corrected): a dirty record is re-encoded when it is sized: if the encoding
\* does not raise, the stored bytes are the fresh encoding, the stored size and
\* the returned size are their length, and the dirty flag is clear.  A dump of a
\* dirty record re-encodes nothing: it raises a state error, writes nothing and
\* leaves the header, the record and its dirty flag as they were.
C3_SizeReencodesDumpRaises ==
    /\ []SizedDirty
    /\ [][(DumpStep /\ r_rec.changed) =>
             /\ r_err' = "StateError"
             /\ r_rec' = r_rec
             /\ r_out' = r_out
             /\ r_hdr' = r_hdr]_vars

\* a changed, compressed record was dumped, which raised, and then sized, which
\* encoded it and left it clean with a size other than the one read
C3_Witness ==
    /\ RecReady
    /\ r_hist.mut # <<>>
    /\ r_hist.dumpRaised
    /\ r_hist.wasDirty
    /\ r_hist.last = "getSize"
    /\ r_err = ""
    /\ ~r_rec.changed
    /\ HasFlag(r_rec.flags1, FlagCompressed)
    /\ r_rec.size # r_hist.size0

\* C6 (as the specification states it): a MelOptStruct whose fields all hold
\* their defaults writes no subrecord; once a field holds a value that is not
\* its default, the subrecord is written.
C6_OptStructOmission ==
    (RecReady /\ r_rec.cls = "MelRecord" /\ r_hist.wasDirty
       /\ r_hist.last = "getSize" /\ r_err = "") =>
        (HasSub(StoredPlain, "XNAM")
           <=> (r_rec.attrs["rank"] # 1 \/ r_rec.attrs["cnt"] # 0))

\* C7: mapFids calls the function once for every form-id field of the record, a
\* struct's form-id field and a MelFid alike; with save_fids the fields hold the
\* mapped values afterwards, without it every attribute is as before.
C7_MapFidsOnce ==
    (RecReady /\ r_hist.last = "mapFids") =>
        /\ Len(r_hist.called) = 2
        /\ {r_hist.called[i] : i \in 1 .. 2} = {"owner", "base"}
        /\ IF r_hist.mapped[3]
           THEN /\ r_rec.attrs["owner"] =
                      IF r_hist.pre["owner"] = r_hist.mapped[1]
                      THEN r_hist.mapped[2] ELSE r_hist.pre["owner"]
                /\ r_rec.attrs["base"] =
                      IF r_hist.pre["base"] = Some(r_hist.mapped[1])
                      THEN Some(r_hist.mapped[2]) ELSE r_hist.pre["base"]
                /\ \A a \in RecAttrs \ {"owner", "base"} :
                      r_rec.attrs[a] = r_hist.pre[a]
           ELSE r_rec.attrs = r_hist.pre

\* both form-id fields were mapped to a new value and written back
C7_Witness ==
    /\ RecReady
    /\ r_hist.last = "mapFids"
    /\ r_hist.mapped[3]
    /\ r_hist.pre["owner"] = 7
    /\ r_hist.pre["base"] = Some(7)
    /\ r_rec.attrs["owner"] \in MapTo
    /\ r_rec.attrs["base"] = Some(r_rec.attrs["owner"])

(***************************************************************************)
(* Record and group headers of a plugin file (mod_io: ModReader,           *)
(* RecordHeader, GrupHeader), in the Oblivion layout: 20 bytes each.       *)
(***************************************************************************)
\* RecordHeader.rec_header_size
rec_header_size == 20

\* ModReader.unpackRecHeader at offset pos of s: [raised, header].  The label
\* of a top group (type 0) is a signature, of any other group a number.
unpackRecHeader(s, pos) ==
    IF pos + rec_header_size > BLen(s) THEN [raised |-> TRUE, header |-> <<>>]
    ELSE IF BytesSig(BSlice(s, pos, 4)) = "GRUP"
    THEN [raised |-> FALSE,
          header |-> [recType |-> "GRUP",
                      size |-> UnLE4(BSlice(s, pos + 4, 4)),
                      label |-> IF UnLE4(BSlice(s, pos + 12, 4)) = 0
                                THEN BytesSig(BSlice(s, pos + 8, 4))
                                ELSE UnLE4(BSlice(s, pos + 8, 4)),
                      raw_label |-> BSlice(s, pos + 8, 4),
                      groupType |-> UnLE4(BSlice(s, pos + 12, 4)),
                      stamp |-> UnLE4(BSlice(s, pos + 16, 4))]]
    ELSE [raised |-> FALSE,
          header |-> [recType |-> BytesSig(BSlice(s, pos, 4)),
                      size |-> UnLE4(BSlice(s, pos + 4, 4)),
                      flags1 |-> UnLE4(BSlice(s, pos + 8, 4)),
                      fid |-> UnLE4(BSlice(s, pos + 12, 4)),
                      flags2 |-> UnLE4(BSlice(s, pos + 16, 4))]]

\* header.blob_size(): what follows the header, a group's size counting its header
blob_size(header) ==
    IF header.recType = "GRUP" THEN header.size - rec_header_size ELSE header.size

(***************************************************************************)
(* The loops over a plugin file keep, in the locals st, a log of what they *)
(* did: the sink called with the reader at an offset, a header read at an  *)
(* offset, and the record or group header done with.                       *)
(***************************************************************************)
\* leaving a with block, by its end or by an exception: the stream is closed
with_exit_leaks(stream) == stream

with_exit(stream) == "closed"

Logged(st, ev, at) == [st EXCEPT !.log = Append(@, [ev |-> ev, at |-> at])]

\* subprogress(insTell()), subprogress(baseSize + insTell()): the sink returns
subprogress(st, at) == Logged(st, "sink", at)

\* progress(ins.tell()) of fix_fog: the sink returns
progress(st, at) == Logged(st, "sink", at)

\* the header h was read with the reader at offset at
header_read(st, h, at) == IF h.raised THEN st ELSE Logged(st, "header", at)

\* the turn of the loop is over: the record is read to its end, or the group
\* header is done with
record_done(st) == IF st.raised THEN st ELSE Logged(st, "end", st.pos)

(***************************************************************************)
(* The scanner (mods_metadata.py, ModCleaner.scan_Many) for one mod        *)
(***************************************************************************)
\* _wrld_types
wrld_types == {"CELL", "WRLD"}

\* the record kinds that can be deleted references
UdrSigs == {"ACRE", "ACHR", "REFR", "NAVM", "PHZD", "PGRE"}

\* ModCleaner.UdrInfo.__init__
UdrInfo(fid, Type, parentFid, parentEid, parentType, parentParentFid, parentParentEid, pos) ==
    [fid |-> fid, type |-> Type, parentFid |-> parentFid, parentEid |-> parentEid,
     parentType |-> parentType, parentParentFid |-> parentParentFid,
     parentParentEid |-> parentParentEid, pos |-> pos]

\* a float read by the 'f' format is falsy: the four bytes of +0.0 or of -0.0
FloatIsZero(b) == b[1] = 0 /\ b[2] = 0 /\ b[3] = 0 /\ b[4] \in {0, 128}

\* structs_cache['=12s2f2l2f'].unpack: color, near, far, rotXY, rotZ, fade, clip,
\* each field kept as the bytes it was read from; struct.error unless 36 bytes
unpack_xcll(d) ==
    IF BLen(d) # 36 THEN [raised |-> TRUE]
    ELSE [raised |-> FALSE, color |-> BSlice(d, 0, 12), near |-> BSlice(d, 12, 4),
          far |-> BSlice(d, 16, 4), rotXY |-> BSlice(d, 20, 4),
          rotZ |-> BSlice(d, 24, 4), fade |-> BSlice(d, 28, 4),
          clip |-> BSlice(d, 32, 4)]

NoFog_near_only(x) == FloatIsZero(x.near)

\* not (near or far or clip)
NoFog(x) == FloatIsZero(x.near) /\ FloatIsZero(x.far) /\ FloatIsZero(x.clip)

\* the loop of the fog branch over the subrecords of a CELL: [raised, fog, pos]
RECURSIVE FogLoop(_, _, _, _, _)

FogLoop_unpacked(s, subrec, x, nextRecord, fid, fog) ==
    IF x.raised THEN [raised |-> TRUE, fog |-> fog, pos |-> subrec.pos]
    ELSE FogLoop(s, subrec.pos, nextRecord, fid,
                 IF NoFog(x) THEN fog \cup {fid} ELSE fog)

FogLoop_sub(s, subrec, nextRecord, fid, fog) ==
    IF subrec.mel_data = None THEN FogLoop(s, subrec.pos, nextRecord, fid, fog)
    ELSE FogLoop_unpacked(s, subrec, unpack_xcll(subrec.mel_data[1]), nextRecord,
                          fid, fog)

FogLoop(s, pos, nextRecord, fid, fog) ==
    IF pos >= nextRecord THEN [raised |-> FALSE, fog |-> fog, pos |-> pos]
    ELSE IF pos + sub_header_size > BLen(s)
    THEN [raised |-> TRUE, fog |-> fog, pos |-> pos]
    ELSE FogLoop_sub(s, SubrecordBlob(s, pos, {"XCLL"}), nextRecord, fid, fog)

\* header.skip_blob(ins), the reader at pos: seeking past the end raises
skip_blob(in, st, header, pos) ==
    [st EXCEPT !.raised = pos + blob_size(header) > BLen(in.file),
               !.pos = pos + blob_size(header)]

\* pass 1, a GRUP header
Pass1_grup(in, st, header, pos) ==
    IF header.groupType = 0 /\ header.label \notin wrld_types
    THEN skip_blob(in, st, header, pos)
    ELSE IF in.detailed
    THEN [st EXCEPT
            !.pos = pos,
            !.ctx = CASE header.groupType = 1 ->
                           [parentParentFid |-> Some(header.label),
                            parentType |-> Some(1), parentFid |-> None]
                      [] header.groupType = 2 ->
                           [parentParentFid |-> None, parentType |-> Some(0),
                            parentFid |-> None]
                      [] header.groupType \in {6, 8, 9, 10} ->
                           [@ EXCEPT !.parentFid = Some(header.label)]
                      [] OTHER -> @]
    ELSE [st EXCEPT !.pos = pos]

\* parents_to_scan[key].add(fid)
AddParent(parents, key, fid) ==
    SetAttr(parents, key,
            (IF key \in DOMAIN parents THEN parents[key] ELSE {}) \cup {fid})

\* parents_to_scan after a candidate under the context ctx is recorded
AddParents(parents, ctx, fid) ==
    IF ctx.parentParentFid # None /\ ctx.parentParentFid # Some(0)
    THEN AddParent(AddParent(parents, ctx.parentFid, fid), ctx.parentParentFid, fid)
    ELSE AddParent(parents, ctx.parentFid, fid)

Pass1_udr_ignores_flag(in, st, header) ==
    IF in.doUDR /\ header.recType \in UdrSigs
    THEN [st EXCEPT !.udr = SetAttr(@, header.fid,
                       UdrInfo(header.fid, None, None, Empty, None, None, Empty, None))]
    ELSE st

\* pass 1, a record: the deleted-reference branch
Pass1_udr(in, st, header) ==
    IF in.doUDR /\ HasFlag(header.flags1, FlagDeleted) /\ header.recType \in UdrSigs
    THEN IF ~in.detailed
         THEN [st EXCEPT !.udr = SetAttr(@, header.fid,
                            UdrInfo(header.fid, None, None, Empty, None, None,
                                    Empty, None))]
         ELSE [st EXCEPT !.udr = SetAttr(@, header.fid,
                            UdrInfo(header.fid, Some(header.recType),
                                    st.ctx.parentFid, Empty, st.ctx.parentType,
                                    st.ctx.parentParentFid, Empty, None)),
                         !.parents = AddParents(@, st.ctx, header.fid)]
    ELSE st

Pass1_fogged(st, r) == [st EXCEPT !.raised = r.raised, !.fog = r.fog, !.pos = r.pos]

\* pass 1, a record: the fog branch, or the blob is skipped
Pass1_fog(in, st, header, pos) ==
    IF in.doFog /\ header.recType = "CELL"
    THEN Pass1_fogged(st, FogLoop(in.file, pos, pos + blob_size(header),
                                  header.fid, st.fog))
    ELSE skip_blob(in, st, header, pos)

Pass1_header(in, st, h) ==
    IF h.raised THEN [st EXCEPT !.raised = TRUE]
    ELSE IF h.header.recType = "GRUP"
    THEN Pass1_grup(in, st, h.header, st.pos + rec_header_size)
    ELSE Pass1_fog(in, Pass1_udr(in, st, h.header), h.header,
                   st.pos + rec_header_size)

Pass1_read(in, st, h) == record_done(Pass1_header(in, header_read(st, h, st.pos), h))

\* the sink called once the header is read
Pass1_read_first(in, st, h) ==
    record_done(Pass1_header(in,
        subprogress(header_read(st, h, st.pos), st.pos + rec_header_size), h))

Pass1_sink_after_header(in, st) == Pass1_read_first(in, st, unpackRecHeader(in.file, st.pos))

\* one turn of the loop of pass 1, the locals being st
Pass1(in, st) == Pass1_read(in, subprogress(st, st.pos), unpackRecHeader(in.file, st.pos))

\* MreRecord(header, ins, True): __init__(self, header, ins=None, *,
\* do_unpack=False) takes header and ins by position and nothing more, so a
\* call with n_positional > 2 raises TypeError
MreRecord_call(header, data, n_positional) ==
    IF n_positional > 2 THEN [raised |-> TRUE, rec |-> <<>>]
    ELSE [raised |-> FALSE, rec |-> MreRecord_init("MreRecord", header, data, <<>>)]

\* bolt.decoder of bytes that are ASCII: the characters
decoder(b) == b

\* the loop over record.iterate_subrecords(mel_sigs={EDID, XCLC}) of the bytes d:
\* [eid, pos]
RECURSIVE ParentInfo(_, _, _, _)

ParentInfo_sub(d, subrec, eid, posvar) ==
    ParentInfo(d, subrec.pos,
               IF subrec.mel_sig = "EDID" THEN decoder(subrec.mel_data[1]) ELSE eid,
               IF subrec.mel_sig = "XCLC"
               THEN Some(<<UnLE4(BSlice(subrec.mel_data[1], 0, 4)),
                           UnLE4(BSlice(subrec.mel_data[1], 4, 4))>>)
               ELSE posvar)

ParentInfo(d, p, eid, posvar) ==
    IF p >= BLen(d) THEN [eid |-> eid, pos |-> posvar]
    ELSE ParentInfo_sub(d, SubrecordBlob(d, p, {"EDID", "XCLC"}), eid, posvar)

\* for udrFid in parents_to_scan[fid]: the candidates get the parent's eid
Backfill(udr, fids, sig, info) ==
    [f \in DOMAIN udr |->
        IF f \notin fids THEN udr[f]
        ELSE IF sig = "CELL"
        THEN [udr[f] EXCEPT !.parentEid = info.eid,
                            !.pos = IF udr[f].parentType = Some(1)
                                    THEN info.pos ELSE @]
        ELSE IF sig = "WRLD" THEN [udr[f] EXCEPT !.parentParentEid = info.eid]
        ELSE udr[f]]

\* udr[udrFid].pos = pos when no XCLC was read yet: pos is not bound
BackfillRaises(udr, fids, sig, info) ==
    sig = "CELL" /\ info.pos = None /\ \E f \in fids : udr[f].parentType = Some(1)

Pass2_filled(in, st, header, pos, info) ==
    [st EXCEPT !.raised = BackfillRaises(st.udr, st.parents[Some(header.fid)],
                                         header.recType, info),
               !.udr = Backfill(@, st.parents[Some(header.fid)], header.recType, info),
               !.posvar = info.pos,
               !.pos = pos + header.size]

\* iterate_subrecords once getDecompressed returned d
Pass2_iterated(in, st, header, pos, d) ==
    IF d.raised THEN [st EXCEPT !.raised = TRUE]
    ELSE Pass2_filled(in, st, header, pos, ParentInfo(d.bytes, 0, Empty, st.posvar))

\* the record r was constructed, or the constructor raised
Pass2_made(in, st, header, pos, r) ==
    IF r.raised THEN [st EXCEPT !.raised = TRUE]
    ELSE IF r.rec.data = Some(Empty)
    THEN Pass2_filled(in, st, header, pos, [eid |-> Empty, pos |-> st.posvar])
    ELSE Pass2_iterated(in, st, header, pos, getDecompressed(r.rec))

\* pass 2, a record
Pass2_rec(in, st, header, pos) ==
    IF Some(header.fid) \in DOMAIN st.parents
    THEN Pass2_made(in, st, header, pos,
                    MreRecord_call(header, BSlice(in.file, pos, header.size), 3))
    ELSE skip_blob(in, st, header, pos)

Pass2_header(in, st, h) ==
    IF h.raised THEN [st EXCEPT !.raised = TRUE]
    ELSE IF h.header.recType = "GRUP"
    THEN IF h.header.groupType = 0 /\ h.header.label \notin wrld_types
         THEN skip_blob(in, st, h.header, st.pos + rec_header_size)
         ELSE [st EXCEPT !.pos = st.pos + rec_header_size]
    ELSE Pass2_rec(in, st, h.header, st.pos + rec_header_size)

Pass2_read(in, st, h) == record_done(Pass2_header(in, header_read(st, h, st.pos), h))

\* one turn of the loop of pass 2
Pass2(in, st) == Pass2_read(in, subprogress(st, st.pos), unpackRecHeader(in.file, st.pos))

(***************************************************************************)
(* Plugin files the scanner and the fog fixer are run on                   *)
(***************************************************************************)
\* a record and a group as the file holds them
RecBytes(sig, flags1, fid, payload) ==
    BCatAll(<<SigBytes(sig), LE(BLen(payload), 4), LE(flags1, 4), LE(fid, 4),
              LE(0, 4), payload>>)

GrupBytes(raw_label, groupType, content) ==
    BCatAll(<<SigBytes("GRUP"), LE(rec_header_size + BLen(content), 4), raw_label,
              LE(groupType, 4), LE(0, 4), content>>)

\* the form ids of the records of a file
Fids == [tes4 |-> 0, weap |-> 16, wrld |-> 32, cell |-> 48, refs |-> <<65, 66>>]

\* float32 values as their little-endian bytes: 0.0, -0.0, 1.0 and 0.0001
F_Zero == <<0, 0, 0, 0>>
F_NegZero == <<0, 0, 0, 128>>
F_One == <<0, 0, 128, 63>>
F_Near == <<23, 183, 209, 56>>

XcllKinds == {"none", "zero", "negzero", "near", "far", "clip", "short"}

\* the fog fields of each kind of XCLL: [near, far, clip]
XcllFog(kind) ==
    CASE kind = "zero" -> [near |-> F_Zero, far |-> F_Zero, clip |-> F_Zero]
      [] kind = "negzero" -> [near |-> F_NegZero, far |-> F_Zero, clip |-> F_NegZero]
      [] kind = "near" -> [near |-> F_Near, far |-> F_Zero, clip |-> F_Zero]
      [] kind = "far" -> [near |-> F_Zero, far |-> F_One, clip |-> F_Zero]
      [] OTHER -> [near |-> F_Zero, far |-> F_Zero, clip |-> F_One]

\* a 36-byte XCLL payload: three colours, fog near and far, two rotations
\* (the second one negative), directional fade, fog clip
XcllPayload(near, far, clip) ==
    BCatAll(<<Rep(12, 7), near, far, LE(90, 4), Rep(4, 255), F_One, clip>>)

\* the XCLL subrecord of a CELL, its near field replaced when given
XcllSub(kind, near) ==
    CASE kind = "none" -> Empty
      [] kind = "short" -> RawSub("XCLL", Rep(35, 0))
      [] OTHER -> RawSub("XCLL", XcllPayload(IF near = None THEN XcllFog(kind).near
                                                           ELSE near[1],
                                             XcllFog(kind).far, XcllFog(kind).clip))

\* the payload of the CELL record of the file p
CellPayload(p, near) ==
    BCatAll(<<IF p.edid THEN RawSub("EDID", <<67, 0>>) ELSE Empty,
              RawSub("DATA", Rep(1, 1)),
              IF p.xclc THEN RawSub("XCLC", BCat(LE(3, 4), LE(5, 4))) ELSE Empty,
              XcllSub(p.xcll, near)>>)

\* the references of the cell, each deleted or live
RefBytes(p) ==
    BCatAll([i \in 1 .. Len(p.refs) |->
               RecBytes(p.refs[i].sig,
                        IF p.refs[i].deleted THEN FlagDeleted ELSE 0,
                        Fids.refs[i], RawSub("NAME", LE(Fids.weap, 4)))])

\* a CELL with its children: GRUP 6 (cell children) holding GRUP 9 (temporary)
CellBlock(p, near) ==
    BCat(RecBytes("CELL", 0, Fids.cell, CellPayload(p, near)),
         GrupBytes(LE(Fids.cell, 4), 6,
                   GrupBytes(LE(Fids.cell, 4), 9, RefBytes(p))))

\* the file p: "claim" is an interior block holding a CELL and its temporary
\* children and nothing else, "orphan" the same with the references not in a
\* group of their own; "interior" and "world" are whole files; "straycell" and
\* "strayworld" are whole files with a second cell block that holds the
\* references directly, after the block of the CELL and its (empty) children
PluginFile(p, near) ==
    CASE p.shape = "claim" ->
           GrupBytes(LE(0, 4), 2,
                     BCat(RecBytes("CELL", 0, Fids.cell, CellPayload(p, near)),
                          GrupBytes(LE(Fids.cell, 4), 9, RefBytes(p))))
      [] p.shape = "orphan" ->
           GrupBytes(LE(0, 4), 2,
                     BCat(RecBytes("CELL", 0, Fids.cell, CellPayload(p, near)),
                          RefBytes(p)))
      [] p.shape = "interior" ->
           BCatAll(<<RecBytes("TES4", 0, Fids.tes4, RawSub("DATA", Rep(2, 0))),
                     GrupBytes(SigBytes("WEAP"), 0,
                               RecBytes("WEAP", FlagDeleted, Fids.weap,
                                        RawSub("EDID", <<87, 0>>))),
                     GrupBytes(SigBytes("CELL"), 0,
                               GrupBytes(LE(0, 4), 2,
                                         GrupBytes(LE(0, 4), 3, CellBlock(p, near))))>>)
      [] p.shape = "straycell" ->
           BCatAll(<<RecBytes("TES4", 0, Fids.tes4, RawSub("DATA", Rep(2, 0))),
                     GrupBytes(SigBytes("CELL"), 0,
                       BCat(GrupBytes(LE(0, 4), 2,
                              GrupBytes(LE(0, 4), 3,
                                        CellBlock([p EXCEPT !.refs = <<>>], near))),
                            GrupBytes(LE(1, 4), 2,
                              GrupBytes(LE(0, 4), 3, RefBytes(p)))))>>)
      [] p.shape = "strayworld" ->
           BCatAll(<<RecBytes("TES4", 0, Fids.tes4, RawSub("DATA", Rep(2, 0))),
                     GrupBytes(SigBytes("WRLD"), 0,
                       BCat(RecBytes("WRLD", 0, Fids.wrld, RawSub("EDID", <<84, 0>>)),
                            GrupBytes(LE(Fids.wrld, 4), 1,
                              BCat(GrupBytes(LE(0, 4), 4,
                                     GrupBytes(LE(0, 4), 5,
                                               CellBlock([p EXCEPT !.refs = <<>>], near))),
                                   GrupBytes(LE(1, 4), 4,
                                     GrupBytes(LE(0, 4), 5, RefBytes(p)))))))>>)
      [] OTHER ->
           BCatAll(<<RecBytes("TES4", 0, Fids.tes4, RawSub("DATA", Rep(2, 0))),
                     GrupBytes(SigBytes("WRLD"), 0,
                               BCat(RecBytes("WRLD", 0, Fids.wrld,
                                             RawSub("EDID", <<84, 0>>)),
                                    GrupBytes(LE(Fids.wrld, 4), 1,
                                              GrupBytes(LE(0, 4), 4,
                                                        GrupBytes(LE(0, 4), 5,
                                                                  CellBlock(p, near))))))>>)

RefLists ==
    {<<>>, <<[sig |-> "REFR", deleted |-> TRUE]>>,
     <<[sig |-> "REFR", deleted |-> FALSE]>>,
     <<[sig |-> "REFR", deleted |-> TRUE], [sig |-> "ACHR", deleted |-> TRUE]>>}

FileParams ==
    {p \in [shape : {"claim", "orphan", "interior", "world", "straycell", "strayworld"},
            edid : BOOLEAN, xclc : BOOLEAN, xcll : XcllKinds, refs : RefLists] :
        /\ p.xclc => p.shape = "world"
        /\ p.shape \in {"straycell", "strayworld"} => (~p.edid /\ p.xcll = "none")}

(***************************************************************************)
(* The scanner as a process: ScanStart is scan_Many up to the first header *)
(* of the mod, ScanPass1Step and ScanPass2Step one turn of each loop.      *)
(***************************************************************************)
ScanInit ==
    /\ LateIdle
    /\ SubIdle
    /\ GrpIdle
    /\ RecIdle
    /\ FogIdle
    /\ k_pc = "start"
    /\ \E p \in FileParams, masters \in {0, 1}, doUDR \in BOOLEAN, doFog \in BOOLEAN,
          detailed \in BOOLEAN :
          k_in = [p |-> p, file |-> PluginFile(p, None), masters |-> masters,
                  doUDR |-> doUDR, doFog |-> doFog, detailed |-> detailed]
    /\ k_pos = 0
    /\ k_ctx = <<>>
    /\ k_udr = <<>>
    /\ k_parents = <<>>
    /\ k_fog = <<>>
    /\ k_posvar = <<>>
    /\ k_ret = <<>>
    /\ k_log = <<>>
    /\ k_ins = "closed"

\* the locals of scan_Many
ScanLocals ==
    [raised |-> FALSE, pos |-> k_pos, ctx |-> k_ctx, udr |-> k_udr[1],
     parents |-> k_parents, fog |-> k_fog[1], posvar |-> k_posvar, log |-> k_log]

\* ret.append((udr.values() if udr is not None else None, itm, fog))
ScanResult(udr, itm, fog) ==
    [udr |-> IF udr = None THEN None ELSE Some({udr[1][f] : f \in DOMAIN udr[1]}),
     itm |-> itm, fog |-> fog]

\* the except clause: udr = itm = fog = None, and the result is appended
ScanFailed(st) ==
    /\ k_pc' = "done"
    /\ k_log' = st.log
    /\ k_ins' = with_exit(k_ins)
    /\ k_udr' = None
    /\ k_fog' = None
    /\ k_ret' = ScanResult(None, None, None)
    /\ UNCHANGED <<k_in, k_pos, k_ctx, k_parents, k_posvar>>

\* a loop turned without raising
ScanTurned(st, pc) ==
    /\ k_pc' = pc
    /\ k_pos' = st.pos
    /\ k_ctx' = st.ctx
    /\ k_udr' = Some(st.udr)
    /\ k_parents' = st.parents
    /\ k_fog' = Some(st.fog)
    /\ k_posvar' = st.posvar
    /\ k_log' = st.log
    /\ UNCHANGED <<k_in, k_ret, k_ins>>

has_masters_always(modInfo) == TRUE

\* len(modInfo.masterNames) > 0
has_masters(modInfo) == modInfo.masters > 0

ScanStart ==
    /\ k_pc = "start"
    /\ IF ~(k_in.doUDR \/ k_in.doFog)
       THEN /\ k_pc' = "done"
            /\ k_ret' = ScanResult(Some(<<>>), Some({}), Some({}))
            /\ k_udr' = Some(<<>>)
            /\ k_fog' = Some({})
            /\ UNCHANGED <<k_pos, k_ctx, k_parents, k_posvar, k_ins>>
       ELSE IF ~has_masters(k_in)
       THEN /\ k_pc' = "done"
            /\ k_ret' = ScanResult(Some(<<>>), Some({}), Some({}))
            /\ k_udr' = Some(<<>>)
            /\ k_fog' = Some({})
            /\ UNCHANGED <<k_pos, k_ctx, k_parents, k_posvar, k_ins>>
       ELSE /\ k_pc' = "pass1"
            /\ k_udr' = Some(<<>>)
            /\ k_fog' = Some({})
            /\ k_ctx' = [parentFid |-> None, parentParentFid |-> None,
                         parentType |-> None]
            /\ k_ins' = "open"
            /\ UNCHANGED <<k_pos, k_parents, k_posvar, k_ret>>
    /\ UNCHANGED <<k_in, k_log>>
    /\ UNCHANGED notScan

ScanPass1Step ==
    /\ k_pc = "pass1"
    /\ k_pos # BLen(k_in.file)
    /\ \E st \in {Pass1(k_in, ScanLocals)} :
          IF st.raised THEN ScanFailed(st) ELSE ScanTurned(st, "pass1")
    /\ UNCHANGED notScan

\* pass 1 is at the end of the file: a second pass if there are parents to scan
ScanPass1End ==
    /\ k_pc = "pass1"
    /\ k_pos = BLen(k_in.file)
    /\ IF DOMAIN k_parents # {}
       THEN /\ k_pc' = "pass2"
            /\ k_pos' = 0
            /\ UNCHANGED <<k_ret, k_ins>>
       ELSE /\ k_pc' = "done"
            /\ k_ret' = ScanResult(k_udr, Some({}), k_fog)
            /\ k_ins' = with_exit(k_ins)
            /\ UNCHANGED k_pos
    /\ UNCHANGED <<k_in, k_ctx, k_udr, k_parents, k_fog, k_posvar, k_log>>
    /\ UNCHANGED notScan

ScanPass2Step ==
    /\ k_pc = "pass2"
    /\ k_pos # BLen(k_in.file)
    /\ \E st \in {Pass2(k_in, ScanLocals)} :
          IF st.raised THEN ScanFailed(st) ELSE ScanTurned(st, "pass2")
    /\ UNCHANGED notScan

ScanPass2End ==
    /\ k_pc = "pass2"
    /\ k_pos = BLen(k_in.file)
    /\ k_pc' = "done"
    /\ k_ret' = ScanResult(k_udr, Some({}), k_fog)
    /\ k_ins' = with_exit(k_ins)
    /\ UNCHANGED <<k_in, k_pos, k_ctx, k_udr, k_parents, k_fog, k_posvar, k_log>>
    /\ UNCHANGED notScan

ScanNext ==
    \/ ScanStart
    \/ ScanPass1Step
    \/ ScanPass1End
    \/ ScanPass2Step
    \/ ScanPass2End

SpecScan == ScanInit /\ [][ScanNext]_vars

(***************************************************************************)
(* scan_Many over several mods, called as checkMods calls it.  The scan of *)
(* the mod at b_i is the scanner process above; the progress sink may      *)
(* raise CancelError wherever it is called.                                *)
(***************************************************************************)
MaxMods == 2

\* the mods of a batch: with and without a master, with and without a deleted
\* reference; one whose XCLL is too short for the fog scan and one whose CELL
\* is the parent of a deleted reference, for pass 2
BatchMods ==
    {[p |-> p, masters |-> m] :
        p \in {q \in FileParams :
                  /\ ~q.edid /\ ~q.xclc
                  /\ \/ /\ q.shape = "orphan" /\ q.xcll = "zero"
                        /\ q.refs \in {<<>>, <<[sig |-> "REFR", deleted |-> TRUE]>>}
                     \/ q.shape = "orphan" /\ q.xcll = "short" /\ q.refs = <<>>
                     \/ /\ q.shape = "claim" /\ q.xcll = "zero"
                        /\ q.refs = <<[sig |-> "REFR", deleted |-> TRUE]>>},
        m \in {0, 1}}

BatchInputs == UNION {[1 .. n -> BatchMods] : n \in 0 .. MaxMods}

BatchInit ==
    /\ SubIdle
    /\ GrpIdle
    /\ RecIdle
    /\ ScanIdle
    /\ FogIdle
    /\ SetIdle
    /\ IterIdle
    /\ LoadIdle
    /\ ObjIdle
    /\ b_pc = "called"
    /\ \E mods \in BatchInputs, doUDR \in BOOLEAN, doFog \in BOOLEAN, detailed \in BOOLEAN :
          b_in = [modInfos |-> mods, doUDR |-> doUDR, doFog |-> doFog,
                  detailed |-> detailed]
    /\ b_i = 0
    /\ b_ret = <<>>
    /\ b_caller = None

\* the early returns of scan_Many, or its first turn
BatchStart ==
    /\ b_pc = "called"
    /\ IF Len(b_in.modInfos) = 0
       THEN /\ b_pc' = "returned"
            /\ b_caller' = Some(<<>>)
            /\ UNCHANGED <<b_i, b_ret>>
       ELSE IF ~(b_in.doUDR \/ b_in.doFog)
       THEN /\ b_pc' = "returned"
            /\ b_caller' = Some([i \in 1 .. Len(b_in.modInfos) |->
                                    [udr |-> Some({}), itm |-> Some({}), fog |-> Some({})]])
            /\ UNCHANGED <<b_i, b_ret>>
       ELSE /\ b_pc' = "loop"
            /\ b_i' = 1
            /\ UNCHANGED <<b_ret, b_caller>>
    /\ UNCHANGED b_in
    /\ UNCHANGED <<scanVars, notBatch>>

\* for i, modInfo in enumerate(modInfos): progress(i, ...) returns and the
\* locals of the turn are set
BatchNextMod ==
    /\ b_pc = "loop"
    /\ k_pc = "off"
    /\ b_i <= Len(b_in.modInfos)
    /\ k_pc' = "start"
    /\ k_in' = [p |-> b_in.modInfos[b_i].p,
                file |-> PluginFile(b_in.modInfos[b_i].p, None),
                masters |-> b_in.modInfos[b_i].masters, doUDR |-> b_in.doUDR,
                doFog |-> b_in.doFog, detailed |-> b_in.detailed]
    /\ k_pos' = 0
    /\ UNCHANGED <<k_ctx, k_udr, k_parents, k_fog, k_posvar, k_ret, k_log, k_ins>>
    /\ UNCHANGED <<batchVars, notBatch>>

ret_append_skips_none(ret, item) == IF item.udr = None THEN ret ELSE Append(ret, item)

\* ret.append((udr.values() if udr is not None else None, itm, fog))
ret_append(ret, item) == Append(ret, item)

\* ret.append(...) and the next turn; the local pos keeps its value
BatchAppend ==
    /\ b_pc = "loop"
    /\ k_pc = "done"
    /\ b_ret' = ret_append(b_ret, k_ret)
    /\ b_i' = b_i + 1
    /\ k_pc' = "off"
    /\ k_in' = <<>> /\ k_pos' = 0 /\ k_ctx' = <<>> /\ k_udr' = <<>>
    /\ k_parents' = <<>> /\ k_fog' = <<>> /\ k_ret' = <<>>
    /\ k_log' = <<>>
    /\ UNCHANGED <<k_ins, k_posvar>>
    /\ UNCHANGED <<b_pc, b_in, b_caller>>
    /\ UNCHANGED notBatch

\* return ret: checkMods binds it
BatchReturn ==
    /\ b_pc = "loop"
    /\ k_pc = "off"
    /\ b_i > Len(b_in.modInfos)
    /\ b_pc' = "returned"
    /\ b_caller' = Some(b_ret)
    /\ UNCHANGED <<b_in, b_i, b_ret>>
    /\ UNCHANGED <<scanVars, notBatch>>

\* the places scan_Many calls the sink: progress(i, ...) at the top of a turn,
\* subprogress(...) at the top of each turn of the two loops over the file
AtProgressCall ==
    \/ k_pc = "off" /\ b_i <= Len(b_in.modInfos)
    \/ k_pc \in {"pass1", "pass2"} /\ k_pos # BLen(k_in.file)

\* the sink raises CancelError: `except CancelError: raise` lets it out of
\* scan_Many, whose ret goes with its frame; checkMods' `except CancelError:
\* pass` is past the assignment of ret
BatchCancel ==
    /\ b_pc = "loop"
    /\ AtProgressCall
    /\ b_pc' = "cancelled"
    /\ b_caller' = None
    /\ k_pc' = "off"
    /\ k_ins' = with_exit(k_ins)
    /\ UNCHANGED <<k_in, k_pos, k_ctx, k_udr, k_parents, k_fog, k_posvar, k_ret, k_log>>
    /\ UNCHANGED <<b_in, b_i, b_ret>>
    /\ UNCHANGED notBatch

BatchNext ==
    \/ BatchStart
    \/ BatchNextMod
    \/ ScanStart
    \/ ScanPass1Step
    \/ ScanPass1End
    \/ ScanPass2Step
    \/ ScanPass2End
    \/ BatchAppend
    \/ BatchReturn
    \/ BatchCancel

SpecBatch == BatchInit /\ [][BatchNext]_vars

(***************************************************************************)
(* The fog fixer (mods_metadata.py, NvidiaFogFixer.fix_fog)                *)
(***************************************************************************)
\* a C long of the platform as the native 'l' format packs it from the bytes of
\* a 32-bit value: sign-extended to long_size bytes
pack_long(b, long_size) ==
    IF long_size = 4 THEN b ELSE BCat(b, Rep(long_size - 4, IF b[4] >= 128 THEN 255 ELSE 0))

\* structs_cache['12s2f2l2f'].pack: the format has no '=', so the fields have
\* the native size and alignment: with an 8-byte long the two rotations are
\* aligned to 8 and take 8 bytes each
pack_xcll_native(x, long_size) ==
    BCatAll(<<x.color, x.near, x.far, Rep((long_size - (20 % long_size)) % long_size, 0),
              pack_long(x.rotXY, long_size), pack_long(x.rotZ, long_size),
              x.fade, x.clip>>)

\* the XCLL branch: the data to write and whether the cell was fixed
FixXcll_unpacked(x, mel_data, long_size) ==
    IF x.raised THEN [raised |-> TRUE, fixed |-> FALSE, mel_data |-> mel_data]
    ELSE IF NoFog(x)
    THEN [raised |-> FALSE, fixed |-> TRUE,
          mel_data |-> pack_xcll_native([x EXCEPT !.near = F_Near], long_size)]
    ELSE [raised |-> FALSE, fixed |-> FALSE, mel_data |-> mel_data]

FixXcll(subrec, long_size) ==
    IF subrec.mel_sig = "XCLL"
    THEN FixXcll_unpacked(unpack_xcll(subrec.mel_data[1]), subrec.mel_data[1], long_size)
    ELSE [raised |-> FALSE, fixed |-> FALSE, mel_data |-> subrec.mel_data[1]]

\* the loop over the subrecords of a CELL: [raised, pos, out, fixed]
RECURSIVE FixLoop(_, _, _)

FixLoop_fixed(in, st, subrec, x, nextRecord) ==
    IF x.raised THEN [st EXCEPT !.raised = TRUE, !.pos = subrec.pos]
    ELSE FixLoop(in,
                 [st EXCEPT !.pos = subrec.pos,
                            !.out = BCat(@, packSub(subrec.mel_sig, x.mel_data)),
                            !.fixed = IF x.fixed THEN @ \cup {st.fid} ELSE @],
                 nextRecord)

FixLoop_sub(in, st, subrec, nextRecord) ==
    FixLoop_fixed(in, st, subrec, FixXcll(subrec, in.long_size), nextRecord)

FixLoop(in, st, nextRecord) ==
    IF st.pos >= nextRecord THEN st
    ELSE IF st.pos + sub_header_size > BLen(in.file) THEN [st EXCEPT !.raised = TRUE]
    ELSE FixLoop_sub(in, st, SubrecordBlob(in.file, st.pos, {}), nextRecord)

\* copy(bsize): what is left of the file if it is shorter
copy(in, st, bsize) ==
    [st EXCEPT !.out = BCat(@, BSlice(in.file, st.pos, bsize)),
               !.pos = IF st.pos + bsize > BLen(in.file) THEN BLen(in.file)
                       ELSE st.pos + bsize]

FixHeader_written(in, st, header) ==
    IF header.recType = "GRUP"
    THEN IF header.groupType # 0 THEN st
         ELSE IF header.label \notin wrld_types THEN copy(in, st, blob_size(header))
         ELSE st
    ELSE IF header.recType = "CELL"
    THEN FixLoop(in, [st EXCEPT !.fid = header.fid], st.pos + blob_size(header))
    ELSE copy(in, st, blob_size(header))

FixHeader(in, st, h) ==
    IF h.raised THEN [st EXCEPT !.raised = TRUE]
    ELSE FixHeader_written(in,
            [st EXCEPT !.pos = @ + rec_header_size,
                       !.out = BCat(@, pack_head(h.header))],
            h.header)

Fix_read(in, st, h) == record_done(FixHeader(in, header_read(st, h, st.pos), h))

\* one turn of the loop of fix_fog
Fix(in, st) == Fix_read(in, progress(st, st.pos), unpackRecHeader(in.file, st.pos))

\* the size of a C long where the program runs: 4 (Windows, 32-bit builds) or 8
LongSizes == {4, 8}

FogInit ==
    /\ LateIdle
    /\ SubIdle
    /\ GrpIdle
    /\ RecIdle
    /\ ScanIdle
    /\ f_pc = "loop"
    /\ \E p \in FileParams, long_size \in LongSizes :
          f_in = [p |-> p, file |-> PluginFile(p, None), long_size |-> long_size,
                  call |-> 1]
    /\ f_pos = 0
    /\ f_out = Empty
    /\ f_fixed = {}
    /\ f_file = PluginFile(f_in.p, None)
    /\ f_ins = "open"
    /\ f_temp = "open"
    /\ f_backup = None
    /\ f_log = <<>>

\* an exception leaves the two with blocks: the reader and the temporary file
\* are closed, the temporary file stays on disk, and nothing after the blocks runs
FixRaised(pc) ==
    /\ f_pc' = pc
    /\ f_ins' = with_exit(f_ins)
    /\ f_temp' = with_exit(f_temp)

FixStep ==
    /\ f_pc = "loop"
    /\ f_pos # BLen(f_in.file)
    /\ \E st \in {Fix(f_in, [raised |-> FALSE, pos |-> f_pos, out |-> f_out,
                             fixed |-> f_fixed, fid |-> 0, log |-> f_log])} :
          /\ IF st.raised THEN FixRaised("raised")
             ELSE f_pc' = "loop" /\ UNCHANGED <<f_ins, f_temp>>
          /\ f_pos' = st.pos
          /\ f_out' = st.out
          /\ f_fixed' = st.fixed
          /\ f_log' = st.log
    /\ UNCHANGED <<f_in, f_file, f_backup>>
    /\ UNCHANGED notFog

\* progress(ins.tell()) raises: the sink cancels before a header is read
FixCancel ==
    /\ f_pc = "loop"
    /\ f_pos # BLen(f_in.file)
    /\ FixRaised("cancelled")
    /\ f_log' = Append(f_log, [ev |-> "sink", at |-> f_pos])
    /\ UNCHANGED <<f_in, f_pos, f_out, f_fixed, f_file, f_backup>>
    /\ UNCHANGED notFog

\* the file is at its end: the with blocks are left, both streams closed
FixDone ==
    /\ f_pc = "loop"
    /\ f_pos = BLen(f_in.file)
    /\ f_pc' = "copied"
    /\ f_ins' = with_exit(f_ins)
    /\ f_temp' = with_exit(f_temp)
    /\ UNCHANGED <<f_in, f_pos, f_out, f_fixed, f_file, f_backup, f_log>>
    /\ UNCHANGED notFog

swap_always(fixedCells) == TRUE

\* if fixedCells:
swap_wanted(fixedCells) == fixedCells # {}

\* self.modInfo.makeBackup(): a copy of the mod is kept
FixBackup ==
    /\ f_pc = "copied"
    /\ swap_wanted(f_fixed)
    /\ f_pc' = "backed"
    /\ f_backup' = Some(f_file)
    /\ UNCHANGED <<f_in, f_pos, f_out, f_fixed, f_file, f_ins, f_temp, f_log>>
    /\ UNCHANGED notFog

\* minfo_path.untemp() and setmtime: the temporary file is moved to the mod's path
FixSwap ==
    /\ f_pc = "backed"
    /\ f_pc' = "done"
    /\ f_file' = f_out
    /\ f_temp' = "absent"
    /\ UNCHANGED <<f_in, f_pos, f_out, f_fixed, f_ins, f_backup, f_log>>
    /\ UNCHANGED notFog

\* minfo_path.temp.remove(): no cell was fixed
FixDiscard ==
    /\ f_pc = "copied"
    /\ ~swap_wanted(f_fixed)
    /\ f_pc' = "done"
    /\ f_temp' = "absent"
    /\ UNCHANGED <<f_in, f_pos, f_out, f_fixed, f_file, f_ins, f_backup, f_log>>
    /\ UNCHANGED notFog

FogNext ==
    \/ FixStep
    \/ FixCancel
    \/ FixDone
    \/ FixBackup
    \/ FixSwap
    \/ FixDiscard

SpecFog == FogInit /\ [][FogNext]_vars

\* fix_fog is called again on the mod it has fixed: fixedCells.clear(), the
\* mod's file is opened, and a new temporary file
FixAgain ==
    /\ f_pc = "done"
    /\ f_in.call = 1
    /\ k_pc = "off"
    /\ f_pc' = "loop"
    /\ f_in' = [f_in EXCEPT !.file = f_file, !.call = 2]
    /\ f_pos' = 0
    /\ f_out' = Empty
    /\ f_fixed' = {}
    /\ f_ins' = "open"
    /\ f_temp' = "open"
    /\ f_log' = <<>>
    /\ UNCHANGED <<f_file, f_backup>>
    /\ UNCHANGED notFog

\* ModCleaner.scan(what=FOG) of the mod fix_fog has left, a mod with a master
ScanAfterFix ==
    /\ f_pc = "done"
    /\ k_pc = "off"
    /\ k_pc' = "start"
    /\ k_in' = [p |-> f_in.p, file |-> f_file, masters |-> 1, doUDR |-> FALSE,
                doFog |-> TRUE, detailed |-> FALSE]
    /\ UNCHANGED <<k_pos, k_ctx, k_udr, k_parents, k_fog, k_posvar, k_ret, k_log, k_ins>>
    /\ UNCHANGED notScan

\* a mod is fixed, then scanned for fog or fixed again and scanned
RefixNext ==
    \/ FogNext
    \/ FixAgain
    \/ ScanAfterFix
    \/ ScanStart
    \/ ScanPass1Step
    \/ ScanPass1End

SpecRefix == FogInit /\ [][RefixNext]_vars

\* the three loops over a plugin file: a mod is scanned or its fog is fixed
LoopsInit == ScanInit \/ FogInit

LoopsNext == ScanNext \/ FogNext

SpecLoops == LoopsInit /\ [][LoopsNext]_vars

(***************************************************************************)
(* Properties of the scanner and of the fog fixer                          *)
(***************************************************************************)
\* the ids of the deleted references of the file p
DeletedRefs(p) == {Fids.refs[i] : i \in {j \in 1 .. Len(p.refs) : p.refs[j].deleted}}

\* the XCLL of the file's CELL has fog near, far and clip all zero
ZeroFog(p) == p.xcll \in {"zero", "negzero"}

\* the scan is past pass 1, which did not raise: fog is the set pass 1 made
Pass1Over == k_pc = "pass2" \/ (k_pc = "done" /\ k_fog # None)

\* a detailed scan for deleted references of a mod with a master, whose file is
\* an interior block, a CELL with an EDID and the CELL's temporary children
ClaimScan ==
    /\ k_in.masters > 0 /\ k_in.doUDR /\ k_in.detailed
    /\ k_in.p.shape = "claim" /\ k_in.p.edid /\ k_in.p.xcll # "short"
    /\ DeletedRefs(k_in.p) # {}

\* C8: after a detailed scan for deleted references of a file holding an
\* interior block, a CELL and the CELL's temporary children with deleted
\* references, the result has one candidate per deleted reference, each with
\* the CELL's id as parentFid and the CELL's decoded EDID as parentEid.
C8_ParentEidBackfilled ==
    (k_pc = "done" /\ ClaimScan) =>
        /\ k_ret.udr # None
        /\ {u.fid : u \in k_ret.udr[1]} = DeletedRefs(k_in.p)
        /\ Cardinality(k_ret.udr[1]) = Cardinality(DeletedRefs(k_in.p))
        /\ \A u \in k_ret.udr[1] :
              /\ u.parentFid = Some(Fids.cell)
              /\ u.parentEid # Empty
              /\ BTake(u.parentEid, 1) = <<67>>

\* what the scan of C8 returns: pass 2 raises at the CELL and the candidates
\* of pass 1 are given up
C8_ScanGivenUp == (k_pc = "done" /\ ClaimScan) => k_ret.udr = None

ExpectedFixed(p) == PluginFile(p, IF ZeroFog(p) THEN Some(F_Near) ELSE None)

\* C10: the file the fixer wrote equals the input byte for byte, except that
\* near is 0.0001 in the CELLs whose fog was all zero.
C10_ByteForByte == f_pc = "done" => f_out = ExpectedFixed(f_in.p)

\* where a C long has 4 bytes the output is as C10 says
C10_ByteForByteLong4 ==
    (f_pc = "done" /\ f_in.long_size = 4) => f_out = ExpectedFixed(f_in.p)

\* the mod as it was before fix_fog
FogOriginal == PluginFile(f_in.p, None)

\* C11: the file at the mod's path is the original until fix_fog has copied the
\* whole file to the temporary file, closed it and made a backup, and after
\* that it is the complete temporary file; it is replaced only if a cell was
\* fixed, and otherwise the temporary file is removed; a pass that fails or is
\* cancelled leaves the original.
C11_AtomicSwap ==
    /\ f_pc \in {"loop", "raised", "cancelled", "copied", "backed"} =>
          f_file = FogOriginal
    /\ f_pc \in {"loop", "raised", "cancelled", "copied"} => f_backup = None
    /\ f_pc = "backed" =>
          /\ f_backup = Some(FogOriginal) /\ f_fixed # {} /\ f_temp = "closed"
          /\ f_pos = BLen(f_in.file)
    /\ f_pc = "done" =>
          /\ f_pos = BLen(f_in.file)
          /\ f_temp = "absent"
          /\ IF f_fixed # {}
             THEN f_file = f_out /\ f_backup = Some(FogOriginal)
             ELSE f_file = FogOriginal /\ f_backup = None

\* a file with a fixed cell was swapped in and the original backed up
C11_Witness ==
    /\ f_pc = "done" /\ f_fixed # {} /\ f_file # FogOriginal
    /\ f_backup = Some(FogOriginal)

(***************************************************************************)
(* Decompression of stored record data                                     *)
(***************************************************************************)
\* what a record may store: the bytes themselves, or a four-byte length and a
\* compressed stream; the length right, off by one or zero, the stream cut
\* short or not a zlib stream at all
StoredForms(p) ==
    {p, BCat(LE(BLen(p), 4), zlib_compress(p)),
     BCat(LE(BLen(p) + 1, 4), zlib_compress(p)),
     BCat(LE(0, 4), zlib_compress(p)),
     BCat(LE(BLen(p), 4), p),
     LE(BLen(p), 2)}

DecInit ==
    /\ LateIdle
    /\ SubIdle
    /\ GrpIdle
    /\ ScanIdle
    /\ FogIdle
    /\ r_pc = "stored"
    /\ \E p \in RecPayloads, compressed \in BOOLEAN :
          \E stored \in StoredForms(p) :
             /\ r_hdr = [recType |-> "WEAP", size |-> BLen(stored),
                         flags1 |-> IF compressed THEN FlagCompressed ELSE 0,
                         fid |-> 256, flags2 |-> 0]
             /\ r_ins = [pos |-> 0, data |-> stored]
    /\ r_rec = <<>>
    /\ r_out = <<>>
    /\ r_ret = 0
    /\ r_err = ""
    /\ r_again = <<>>
    /\ r_hist = <<>>

\* the record is made from the stream without unpacking
DecConstruct ==
    /\ r_pc = "stored"
    /\ r_rec' = MreRecord_init("MreRecord", r_hdr, r_ins.data, <<>>)
    /\ r_pc' = "made"
    /\ UNCHANGED <<r_hdr, r_ins, r_out, r_ret, r_err, r_again, r_hist, notRec>>

\* record.getDecompressed(), and getRecordReader() on the same header and bytes
DecDecompress ==
    /\ r_pc = "made"
    /\ \E d \in {getDecompressed(r_rec)}, g \in {getRecordReader(r_hdr, r_ins.data)} :
          /\ r_again' = <<d, g>>
          /\ r_err' = d.err
    /\ r_pc' = "decompressed"
    /\ UNCHANGED <<r_hdr, r_ins, r_rec, r_out, r_ret, r_hist, notRec>>

DecNext ==
    \/ DecConstruct
    \/ DecDecompress

SpecDec == DecInit /\ [][DecNext]_vars

(***************************************************************************)
(* MreRecord.iterate_subrecords: a generator over the subrecords of the    *)
(* record's bytes, read through a reader it opens in a with block.         *)
(***************************************************************************)
\* the generator runs from offset pos of the reader's bytes d to its next
\* yield, to the end of the bytes or to an exception of the reader
RECURSIVE iterate_next(_, _, _)

iterate_next_sub(d, subrec, mel_sigs) ==
    IF subrec.pos > BLen(d) THEN [out |-> "raise", pos |-> subrec.pos]
    ELSE IF mel_sigs = {} \/ subrec.mel_sig \in mel_sigs
    THEN [out |-> "yield", pos |-> subrec.pos]
    ELSE iterate_next(d, subrec.pos, mel_sigs)

iterate_next(d, pos, mel_sigs) ==
    IF pos >= BLen(d) THEN [out |-> "end", pos |-> pos]
    ELSE IF pos + sub_header_size > BLen(d) THEN [out |-> "raise", pos |-> pos]
    ELSE iterate_next_sub(d, SubrecordBlob(d, pos, mel_sigs), mel_sigs)

\* record.iterate_subrecords(mel_sigs): the generator is made, none of its code
\* has run
IterCall ==
    /\ r_pc = "made"
    /\ i_pc = "off"
    /\ \E mel_sigs \in {{}, {"EDID", "XCLC"}} : i_sigs' = mel_sigs
    /\ i_pc' = "created"
    /\ UNCHANGED <<i_reader, i_data, i_pos>>
    /\ UNCHANGED notIter

\* the generator went on from offset pos of the open reader and stopped as r says
IterStopped(d, r) ==
    /\ i_data' = Some(d)
    /\ i_pos' = r.pos
    /\ i_pc' = CASE r.out = "yield" -> "suspended"
                 [] r.out = "end" -> "exhausted"
                 [] OTHER -> "raised"
    /\ i_reader' = IF r.out = "yield" THEN "open" ELSE with_exit("open")

\* the first next() of the consumer: `if not self.data: return`, then
\* getDecompressed and the reader opened, then the loop
IterFirst ==
    /\ i_pc = "created"
    /\ IF r_rec.data = None \/ r_rec.data = Some(Empty)
       THEN i_pc' = "exhausted" /\ UNCHANGED <<i_reader, i_data, i_pos>>
       ELSE \E g \in {getDecompressed(r_rec)} :
               IF g.raised
               THEN i_pc' = "raised" /\ UNCHANGED <<i_reader, i_data, i_pos>>
               ELSE IterStopped(g.bytes, iterate_next(g.bytes, 0, i_sigs))
    /\ UNCHANGED i_sigs
    /\ UNCHANGED notIter

\* a later next() of the consumer
IterResume ==
    /\ i_pc = "suspended"
    /\ IterStopped(i_data[1], iterate_next(i_data[1], i_pos, i_sigs))
    /\ UNCHANGED i_sigs
    /\ UNCHANGED notIter

\* the consumer leaves its loop while the generator is suspended (its body
\* raised, as the unpack of a short XCLC in pass 2 does): the for statement
\* drops the generator, whose finalisation raises GeneratorExit at the yield,
\* which leaves the with block
IterAbandon ==
    /\ i_pc = "suspended"
    /\ i_pc' = "abandoned"
    /\ i_reader' = with_exit(i_reader)
    /\ UNCHANGED <<i_sigs, i_data, i_pos>>
    /\ UNCHANGED notIter

IterNext ==
    \/ DecConstruct
    \/ IterCall
    \/ IterFirst
    \/ IterResume
    \/ IterAbandon

SpecIter == DecInit /\ [][IterNext]_vars

\* every operation that opens a stream: a scan alone or in a batch, a fix of
\* the fog, an iteration over the subrecords of a record
StreamsInit == ScanInit \/ BatchInit \/ FogInit \/ DecInit

StreamsNext == BatchNext \/ FogNext \/ IterNext

SpecStreams == StreamsInit /\ [][StreamsNext]_vars

(***************************************************************************)
(* Building a schema: MelSet.__init__ over its elements, and the           *)
(* registration methods of the elements as MelSequential calls them on its *)
(* children (basic_elements.py 347-355).                                   *)
(***************************************************************************)
MaxElements == 2

\* MelBase.__init__(mel_sig, attr, default)
MelBase_default(mel_sig, attr, default) == [kind |-> "MelBase", sig |-> mel_sig, attr |-> attr, default |-> default]

\* the elements schemas are built from: two may share a signature, an attribute
\* or both, with the same default or another
SchemaElements ==
    { MelBase_default("AAAA", "x", 0), MelBase_default("AAAA", "x", 1),
      MelBase_default("BBBB", "x", 0), MelBase_default("BBBB", "y", 0),
      MelStruct("AAAA", <<1>>, <<"x">>, <<1>>, {}),
      MelStruct("CCCC", <<1, 1>>, <<"x", "y">>, <<0, 1>>, {}) }

Schemas == UNION {[1 .. n -> SchemaElements] : n \in 0 .. MaxElements}

\* the positional parameters getDefaulters takes after self: MelGroup and
\* MelGroups have a second one, mel_key
getDefaulters_params(el) == IF el.kind \in {"MelGroup", "MelGroups"} THEN 2 ELSE 1

\* MelBase.getDefaulters on an object that has a defaulters table
MelBase_getDefaulters(el, defaultrs) ==
    IF el.attr \in DOMAIN defaultrs /\ el.default # defaultrs[el.attr]
    THEN [raised |-> TRUE, err |-> "SyntaxError", defaulters |-> defaultrs]
    ELSE [raised |-> FALSE, err |-> "", defaulters |-> SetAttr(defaultrs, el.attr, el.default)]

\* a str compared with a tuple in a set intersection: never equal
str_eq_tuple(a, t) == FALSE

\* for attr, value, action in zip(...): defaultrs[attr] = value
RECURSIVE StructDefaults(_, _, _)
StructDefaults(el, defaultrs, i) ==
    IF i > Len(el.attrs) THEN defaultrs
    ELSE StructDefaults(el, SetAttr(defaultrs, el.attrs[i], el.defaults[i]), i + 1)

\* MelStruct.getDefaulters: dups is the intersection of the common attribute
\* names with a set of (name, registered default, own default) triples
MelStruct_getDefaulters(el, defaultrs) ==
    LET common_attrs == {el.attrs[i] : i \in 1 .. Len(el.attrs)} \cap DOMAIN defaultrs
        differing == {i \in 1 .. Len(el.attrs) :
                         /\ el.attrs[i] \in common_attrs
                         /\ defaultrs[el.attrs[i]] # el.defaults[i]}
        triples == {<<el.attrs[i], defaultrs[el.attrs[i]], el.defaults[i]>> : i \in differing}
        dups == {a \in common_attrs : \E t \in triples : str_eq_tuple(a, t)}
    IN IF dups # {}
       THEN [raised |-> TRUE, err |-> "SyntaxError", defaulters |-> defaultrs]
       ELSE [raised |-> FALSE, err |-> "", defaulters |-> StructDefaults(el, defaultrs, 1)]

\* element.getDefaulters called with n_positional arguments after self
getDefaulters_call(el, defaultrs, n_positional) ==
    IF n_positional > getDefaulters_params(el)
    THEN [raised |-> TRUE, err |-> "TypeError", defaulters |-> defaultrs]
    ELSE IF IsStruct(el) THEN MelStruct_getDefaulters(el, defaultrs)
    ELSE MelBase_getDefaulters(el, defaultrs)

\* MelBase.getLoaders: loaders[self.mel_sig] = self (the element is named by its
\* index in the schema)
MelBase_getLoaders(el, idx, loaders) == SetAttr(loaders, el.sig, idx)

\* MelSequential.getLoaders: each child registers in _sub_loaders, in order
RECURSIVE MelSequential_getLoaders(_, _, _)
MelSequential_getLoaders(elements, sub_loaders, i) ==
    IF i > Len(elements) THEN sub_loaders
    ELSE MelSequential_getLoaders(elements,
            MelBase_getLoaders(elements[i], i, sub_loaders), i + 1)

SetInit ==
    /\ SubIdle
    /\ GrpIdle
    /\ RecIdle
    /\ ScanIdle
    /\ FogIdle
    /\ BatchIdle
    /\ IterIdle
    /\ LoadIdle
    /\ ObjIdle
    /\ \E els \in Schemas, entry \in {"MelSet", "MelSequential"} :
          /\ m_in = [elements |-> els, entry |-> entry]
          /\ m_pc = IF entry = "MelSet" THEN "init" ELSE "defaulters"
    /\ m_i = 1
    /\ m_defaulters = <<>>
    /\ m_loaders = <<>>
    /\ m_exc = None

SetRaised(err) ==
    /\ m_pc' = "raised"
    /\ m_exc' = Some(err)
    /\ UNCHANGED <<m_in, m_i, m_defaulters, m_loaders>>

\* one turn of the loop of MelSet.__init__:
\* element.getDefaulters(self.defaulters, ''), element.getLoaders(self.loaders)
SetRegister ==
    /\ m_pc = "init"
    /\ m_i <= Len(m_in.elements)
    /\ \E r \in {getDefaulters_call(m_in.elements[m_i], m_defaulters, 2)} :
          IF r.raised THEN SetRaised(r.err)
          ELSE /\ m_defaulters' = r.defaulters
               /\ m_loaders' = MelBase_getLoaders(m_in.elements[m_i], m_i, m_loaders)
               /\ m_i' = m_i + 1
               /\ UNCHANGED <<m_pc, m_in, m_exc>>
    /\ UNCHANGED notSet

\* the end of MelSet.__init__: every key of the loaders has four characters
SetValidate ==
    /\ m_pc = "init"
    /\ m_i > Len(m_in.elements)
    /\ IF \E sig_candidate \in DOMAIN m_loaders : Len(sig_candidate) # 4
       THEN SetRaised("SyntaxError")
       ELSE /\ m_pc' = "built"
            /\ UNCHANGED <<m_in, m_i, m_defaulters, m_loaders, m_exc>>
    /\ UNCHANGED notSet

\* one turn of the loop of MelSequential.getDefaulters(mel_set_instance)
SeqGetDefaulters ==
    /\ m_pc = "defaulters"
    /\ m_i <= Len(m_in.elements)
    /\ \E r \in {getDefaulters_call(m_in.elements[m_i], m_defaulters, 1)} :
          IF r.raised THEN SetRaised(r.err)
          ELSE /\ m_defaulters' = r.defaulters
               /\ m_i' = m_i + 1
               /\ UNCHANGED <<m_pc, m_in, m_loaders, m_exc>>
    /\ UNCHANGED notSet

\* MelSequential.getLoaders(loaders), after getDefaulters returned:
\* loaders.update(self._sub_loaders)
SeqGetLoaders ==
    /\ m_pc = "defaulters"
    /\ m_i > Len(m_in.elements)
    /\ m_loaders' = MelSequential_getLoaders(m_in.elements, <<>>, 1) @@ m_loaders
    /\ m_pc' = "built"
    /\ UNCHANGED <<m_in, m_i, m_defaulters, m_exc>>
    /\ UNCHANGED notSet

SetNext ==
    \/ SetRegister
    \/ SetValidate
    \/ SeqGetDefaulters
    \/ SeqGetLoaders

SpecSet == SetInit /\ [][SetNext]_vars

C13_Decompressed ==
    r_pc = "decompressed" =>
        /\ r_again[2] = r_again[1]
        /\ IF ~HasFlag(r_hdr.flags1, FlagCompressed)
           THEN r_again[1] = [raised |-> FALSE, err |-> "", bytes |-> r_ins.data,
                              size |-> BLen(r_ins.data)]
           ELSE (BLen(r_ins.data) >= 4 /\ zlib_ok(BDrop(r_ins.data, 4))) =>
                   IF BLen(r_ins.data) - 5 # UnLE4(BTake(r_ins.data, 4))
                   THEN r_again[1].raised /\ r_again[1].err = "ModError"
                   ELSE /\ ~r_again[1].raised
                        /\ r_again[1].bytes = BDrop(r_ins.data, 5)
                        /\ r_again[1].size = UnLE4(BTake(r_ins.data, 4))

\* a compressed record whose length prefix is off by one was rejected
C13_Witness ==
    /\ r_pc = "decompressed"
    /\ HasFlag(r_hdr.flags1, FlagCompressed)
    /\ BLen(r_ins.data) > 5
    /\ zlib_ok(BDrop(r_ins.data, 4))
    /\ UnLE4(BTake(r_ins.data, 4)) = BLen(r_ins.data) - 4
    /\ r_err = "ModError"

\* C14: when the sink cancels a batch scan, the mods after the one being
\* scanned are not scanned, and the caller of the batch holds the results of
\* the mods that were scanned to the end before the cancellation.
C14_PartialResultsRetained ==
    (b_pc = "cancelled" /\ Len(b_ret) >= 1) => b_caller = Some(b_ret)

\* what the code does: a cancelled batch leaves its caller with no result
C14_CancelledBatchLost ==
    b_pc = "cancelled" => (b_caller = None /\ b_i <= Len(b_in.modInfos))

C14_Reached ==
    /\ b_pc = "cancelled" /\ Len(b_ret) >= 1 /\ b_ret[1].udr # None
    /\ b_ret[1].udr[1] # {}

\* a scan for deleted references and fog of a mod with a master whose CELL has
\* an XCLL too short to unpack: reading that record fails
ShortXcllScan ==
    /\ k_in.masters > 0 /\ k_in.doUDR /\ k_in.doFog /\ ~k_in.detailed
    /\ k_in.p.xcll = "short"

\* C15: a failure while one record is processed is caught and the scan goes on
\* with the next record of the file, keeping what it found: the scan of a file
\* whose CELL cannot be read still reports the deleted references of the file.
C15_RecordFailureContained ==
    (k_pc = "done" /\ ShortXcllScan) =>
        /\ k_ret.udr # None
        /\ {u.fid : u \in k_ret.udr[1]} = DeletedRefs(k_in.p)

\* what the code does: the failure ends the scan of the file with no result
C15_FileGivenUp ==
    (k_pc = "done" /\ ShortXcllScan) =>
        (k_ret.udr = None /\ k_ret.itm = None /\ k_ret.fog = None)

\* a field of the record's DATA struct holds a value its packer rejects
DataRejected ==
    ~(Packable(r_rec.attrs["owner"], 4) /\ Packable(r_rec.attrs["weight"], 1))

\* C16: when the packer of a structured tuple rejects a field value while a
\* changed record is encoded (getSize), the caller gets an error; the subrecord
\* is not left out of the encoded record without one.
C16_PackerRejectionSurfaces ==
    (RecReady /\ r_rec.cls = "MelRecord" /\ r_hist.wasDirty
       /\ r_hist.last = "getSize" /\ DataRejected) => r_err # ""

\* what the code does: the encoding succeeds and has no DATA subrecord
C16_SubrecordLeftOut ==
    (RecReady /\ r_rec.cls = "MelRecord" /\ r_hist.wasDirty
       /\ r_hist.last = "getSize" /\ DataRejected) =>
        (r_err = "" /\ ~r_rec.changed /\ ~HasSub(StoredPlain, "DATA"))

\* the schema is built or its construction has raised
SchemaOver == m_pc \in {"built", "raised"}

\* two elements of the schema give the same attribute different defaults
DefaultOf(el, a) ==
    IF IsStruct(el) THEN el.defaults[CHOOSE i \in 1 .. Len(el.attrs) : el.attrs[i] = a]
    ELSE el.default

DefaultsDisagree(elements) ==
    \E i, j \in 1 .. Len(elements) :
        /\ i < j
        /\ \E a \in SlotsUsed(elements[i]) \cap SlotsUsed(elements[j]) :
              DefaultOf(elements[i], a) # DefaultOf(elements[j], a)

\* two elements of the schema have the same signature
SignatureTwice(elements) ==
    \E i, j \in 1 .. Len(elements) : i < j /\ elements[i].sig = elements[j].sig

\* C17: building a schema in which two elements give one attribute different
\* defaults raises a definition error, whatever the kinds of the two elements.
C17_DisagreeingDefaultsRaise ==
    (SchemaOver /\ DefaultsDisagree(m_in.elements)) =>
        (m_pc = "raised" /\ m_exc = Some("SyntaxError"))

\* what the code does on the way MelSequential registers its children: the
\* definition error is raised exactly when the later of two disagreeing
\* elements is a single-attribute element
C17_OnlySingleAttributeRaises ==
    (SchemaOver /\ m_in.entry = "MelSequential") =>
        (m_pc = "raised" <=>
            \E j \in 1 .. Len(m_in.elements) :
                /\ ~IsStruct(m_in.elements[j])
                /\ DefaultsDisagree(SubSeq(m_in.elements, 1, j))
                /\ ~DefaultsDisagree(SubSeq(m_in.elements, 1, j - 1)))

\* C18: building a schema in which two elements register the same signature is
\* rejected with a definition error; the later element does not take the place
\* of the earlier one in the dispatch table.
C18_DuplicateSignatureRejected ==
    (SchemaOver /\ SignatureTwice(m_in.elements)) =>
        (m_pc = "raised" /\ m_exc = Some("SyntaxError"))

\* what the code does: in a schema that was built, the last element with a
\* signature is its loader
C18_LastWriterWins ==
    m_pc = "built" =>
        \A i \in 1 .. Len(m_in.elements) :
            m_loaders[m_in.elements[i].sig] =
                CHOOSE j \in 1 .. Len(m_in.elements) :
                    /\ m_in.elements[j].sig = m_in.elements[i].sig
                    /\ \A k \in 1 .. Len(m_in.elements) :
                          m_in.elements[k].sig = m_in.elements[i].sig => k <= j

\* in the log L the sink is called only between records: the first thing a loop
\* does, or right after a record or group header is done with, and what follows
\* the call is the read of the header at the offset the sink was called at; no
\* header is read without the sink called before it
SinkAtBoundaries(L) ==
    \A i \in 1 .. Len(L) :
        /\ L[i].ev = "sink" =>
              /\ i = 1 \/ L[i - 1].ev = "end"
              /\ i < Len(L) => (L[i + 1].ev = "header" /\ L[i + 1].at = L[i].at)
        /\ L[i].ev = "header" => (i > 1 /\ L[i - 1].ev = "sink")

NSinks(L) == Cardinality({i \in 1 .. Len(L) : L[i].ev = "sink"})

ScanOver == k_pc = "done" \/ b_pc \in {"cancelled", "returned"}

\* the fixer has left its with blocks, by their end, an exception or a
\* cancellation
FixOver == f_pc \in {"raised", "cancelled", "copied", "backed", "done"}

\* the iteration is over: the generator is exhausted, has raised or was dropped
IterOver == i_pc \in {"exhausted", "raised", "abandoned"}

RefContext(p) ==
    CASE p.shape \in {"orphan", "straycell"} ->
           [parentFid |-> None, parentType |-> Some(0), parentParentFid |-> None]
      [] p.shape \in {"world", "strayworld"} ->
           [parentFid |-> Some(Fids.cell), parentType |-> Some(1),
            parentParentFid |-> Some(Fids.wrld)]
      [] OTHER ->
           [parentFid |-> Some(Fids.cell), parentType |-> Some(0),
            parentParentFid |-> None]

\* the kind of the reference of p with the form id f
RefSig(p, f) == p.refs[CHOOSE i \in 1 .. Len(p.refs) : Fids.refs[i] = f].sig

C29_NoMastersNotOpened ==
    k_in.masters = 0 =>
        /\ k_ins = "closed"
        /\ k_log = <<>>
        /\ k_pos = 0
        /\ k_pc = "done" => k_ret = ScanResult(Some(<<>>), Some({}), Some({}))

C29_Witness ==
    /\ k_pc = "done" /\ k_in.masters = 0
    /\ k_in.doUDR /\ k_in.doFog /\ k_in.detailed
    /\ DeletedRefs(k_in.p) # {} /\ k_in.p.xcll = "zero"
    /\ k_ret = ScanResult(Some(<<>>), Some({}), Some({}))

\* a detailed scan at the end of pass 1 of a file whose second cell block, of
\* the kind given, holds deleted references directly
StrayScan(shape) ==
    /\ k_pc = "pass2" /\ k_in.detailed /\ k_in.p.shape = shape
    /\ DeletedRefs(k_in.p) # {}

\* C24: a candidate read in an exterior cell block that follows the block of an
\* earlier CELL and its children carries no parent id: the header of the new
\* block reset it.
C24_ExteriorBlockResetsParent ==
    StrayScan("strayworld") =>
        \A f \in DOMAIN k_udr[1] : k_udr[1][f].parentFid = None

\* the same for an interior cell block, whose header resets the parent id and
\* the grandparent id
C24_InteriorBlockResetsParent ==
    StrayScan("straycell") =>
        \A f \in DOMAIN k_udr[1] :
            k_udr[1][f].parentFid = None /\ k_udr[1][f].parentParentFid = None

\* what the code does in the exterior case: the candidate carries the id of the
\* CELL of the earlier block, and the world's id as grandparent
C24_ExteriorBlockKeepsParent ==
    StrayScan("strayworld") =>
        \A f \in DOMAIN k_udr[1] :
            /\ k_udr[1][f].parentFid = Some(Fids.cell)
            /\ k_udr[1][f].parentParentFid = Some(Fids.wrld)

\* a detailed scan for deleted references of a mod with a master whose file
\* holds a world, an exterior CELL and deleted references among its children
ExteriorScan ==
    /\ k_in.masters > 0 /\ k_in.doUDR /\ ~k_in.doFog /\ k_in.detailed
    /\ k_in.p.shape = "world" /\ DeletedRefs(k_in.p) # {}

\* the grid position the XCLC of the file's CELL holds, if it has one
OwnPosition(p) == IF p.xclc THEN Some(<<3, 5>>) ELSE None

\* C25: a detailed scan of a file with an exterior CELL and deleted references
\* among its children does not fail, and each candidate's position is the one
\* of the XCLC of its parent CELL (none when the CELL has no XCLC).
C25_PositionFromOwnCell ==
    (k_pc = "done" /\ ExteriorScan) =>
        /\ k_ret.udr # None
        /\ \A u \in k_ret.udr[1] : u.pos = OwnPosition(k_in.p)

\* what the code does: pass 2 raises at the first parent record, the WRLD, and
\* the file's result is the None triple
C25_ScanGivenUp ==
    (k_pc = "done" /\ ExteriorScan) => k_ret = ScanResult(None, None, None)

\* and had the parent CELL been decoded: without an XCLC, and with no XCLC read
\* before, the assignment of pos to the candidate reads a name that is not bound
C25_NoXclcUnbound ==
    (k_pc = "pass2" /\ ExteriorScan /\ ~k_in.p.xclc) =>
        BackfillRaises(k_udr[1], k_parents[Some(Fids.cell)], "CELL",
                       ParentInfo(CellPayload(k_in.p, None), 0, Empty, k_posvar))

\* the scan of the mod raises an exception that is not a cancellation: the fog
\* scan unpacks an XCLL that is too short, or pass 2 constructs the record of a
\* parent CELL
ModFails(mod, in) ==
    /\ mod.masters > 0
    /\ \/ in.doFog /\ mod.p.xcll = "short"
       \/ in.detailed /\ in.doUDR /\ mod.p.shape = "claim" /\ DeletedRefs(mod.p) # {}

\* the result r is the one of the mod scanned on its own
ResultOf(r, mod, in) ==
    IF ModFails(mod, in) THEN r = ScanResult(None, None, None)
    ELSE /\ r.udr # None /\ r.itm = Some({}) /\ r.fog # None
         /\ {u.fid : u \in r.udr[1]} =
               IF mod.masters > 0 /\ in.doUDR THEN DeletedRefs(mod.p) ELSE {}
         /\ r.fog[1] = IF mod.masters > 0 /\ in.doFog /\ ZeroFog(mod.p)
                       THEN {Fids.cell} ELSE {}

C28_AppendOnly ==
    [][b_pc = "loop" =>
         /\ Len(b_ret') >= Len(b_ret)
         /\ \A i \in 1 .. Len(b_ret) : b_ret'[i] = b_ret[i]]_vars

RefixOver == f_in.call = 2 /\ f_pc \in {"raised", "copied", "backed", "done"}

\* C30: after fix_fog has completed, a fog scan of the mod reports the empty
\* set, and a second fix_fog fixes no cell, removes its temporary file and
\* leaves the mod's file as it was.
C30_FixIsFixedPoint ==
    /\ k_pc = "done" => k_ret.fog = Some({})
    /\ RefixOver =>
          /\ f_pc \in {"copied", "done"}
          /\ f_fixed = {}
          /\ f_pc = "done" => (f_temp = "absent" /\ f_file = f_in.file)

\* where a C long has 4 bytes it is as C30 says
C30_FixIsFixedPointLong4 ==
    f_in.long_size = 4 =>
        /\ k_pc = "done" => k_ret.fog = Some({})
        /\ RefixOver =>
              /\ f_pc \in {"copied", "done"}
              /\ f_fixed = {}
              /\ f_pc = "done" => (f_temp = "absent" /\ f_file = f_in.file)

\* where it has 8 bytes, the XCLL fix_fog wrote cannot be unpacked: the scan of
\* the fixed mod fails, and so does the second fix_fog, which leaves its
\* temporary file on disk
C30_RewrittenXcllUnreadable ==
    (f_in.long_size = 8 /\ ZeroFog(f_in.p)) =>
        /\ k_pc = "done" => k_ret = ScanResult(None, None, None)
        /\ RefixOver => (f_pc = "raised" /\ f_temp = "closed")

C30_Reached ==
    /\ f_in.long_size = 4 /\ ZeroFog(f_in.p) /\ f_in.call = 2 /\ f_pc = "done"
    /\ k_pc = "done" /\ k_ret.fog = Some({})

\* a step of getSize on a dirty record that raised
GetSizeRaised ==
    /\ r_pc = "ready" /\ r_rec.changed
    /\ r_hist'.last = "getSize" /\ r_err' = "Error"

\* C26: when the encoding fails during getSize of a dirty record, the record's
\* stored data, size and dirty flag (and every other field) keep their values,
\* and nothing is written to the output stream, the header or the reader.
C26_FailedEncodingChangesNothing ==
    [][GetSizeRaised =>
         /\ r_rec' = r_rec
         /\ r_rec'.changed
         /\ r_out' = r_out /\ r_hdr' = r_hdr /\ r_ins' = r_ins /\ r_ret' = r_ret]_vars

\* the same for a raw record that holds no data: dumpData raises StateError
\* before anything is written
C26_NoDataChangesNothing ==
    r_pc = "ready" =>
        \A nodata \in {[r_rec EXCEPT !.cls = "MreRecord", !.data = None,
                                     !.changed = TRUE]} :
            /\ getSize(RecElements, nodata).raised
            /\ getSize(RecElements, nodata).rec = nodata

\* getSize of a dirty record has just raised
C26_Witness ==
    /\ r_pc = "ready" /\ r_hist.last = "getSize" /\ r_err = "Error"
    /\ r_hist.wasDirty /\ r_rec.changed /\ r_rec.cls = "MelRecord"
    /\ r_rec.data = Some(r_hist.raw) /\ r_rec.size = r_hist.size0

\* C27: once the constructor of a record with full decode has returned or
\* raised, the reader wraps the stream, and has the size and the debug offset,
\* it had before the call, and the file stream is just after the header.size
\* bytes of the record.
C27_ReaderRestored ==
    r_pc \in {"ready", "failed"} =>
        /\ r_ins.ins = r_hist.reader0.ins
        /\ r_ins.size = r_hist.reader0.size
        /\ r_ins.debug_offset = r_hist.reader0.debug_offset
        /\ r_ins.data = r_hist.reader0.data
        /\ r_ins.pos = r_hist.reader0.pos + r_hist.size0

\* the constructor raised while the reader wrapped the decompressed data
C27_Witness ==
    /\ r_pc = "failed" /\ r_rec.cls = "MelRecord"
    /\ r_hist.swapped.ins = "decompressed"
    /\ r_hist.swapped.size # r_hist.reader0.size
    /\ HasFlag(r_hdr.flags1, FlagCompressed)
    /\ r_ins.ins = "file" /\ r_ins.pos = r_hdr.size

(***************************************************************************)
(* load_mel of one element on a reader (basic_elements.py).  The reader    *)
(* is the bytes of the record's data and the offset of the next read; its  *)
(* methods are ModReader's: read(size) and unpack(unpacker, size) take    *)
(* size bytes or raise when fewer are left, seek(offset, 1) moves by       *)
(* offset, unpackRef() unpacks one 4-byte reference.                       *)
(***************************************************************************)
\* the declared sizes load_mel is called with
MaxLoadSize == 9

\* the bytes left in the reader after the declared size
LoadTails == {0, 6}

\* the reader's offset at the call
LoadOffsets == {0, 6}

\* [raised, ins, data]: ins.read(size_)
ins_read(ins, size_) ==
    IF ins.pos + size_ > BLen(ins.data)
    THEN [raised |-> TRUE, ins |-> ins, data |-> Empty]
    ELSE [raised |-> FALSE, ins |-> [ins EXCEPT !.pos = @ + size_],
          data |-> BSlice(ins.data, ins.pos, size_)]

\* ins.unpack(unpacker, size_): the bytes are read, then the unpacker of a
\* struct of static_size bytes raises struct.error on any other length
ins_unpack(ins, static_size, size_) ==
    [ins_read(ins, size_) EXCEPT !.raised = @ \/ size_ # static_size]

\* ins.unpackRef(): one reference, 4 bytes
ins_unpackRef(ins) == ins_unpack(ins, 4, 4)

\* ins.seek(offset, 1)
ins_seek(ins, offset) ==
    IF ins.pos + offset > BLen(ins.data)
    THEN [raised |-> TRUE, ins |-> ins, data |-> Empty]
    ELSE [raised |-> FALSE, ins |-> [ins EXCEPT !.pos = @ + offset], data |-> Empty]

\* bolt.cstrip: the bytes before the first null
RECURSIVE cstrip(_)
cstrip(b) ==
    IF b = Empty \/ BAt(b, 1) = 0 THEN Empty
    ELSE BCat(<<BAt(b, 1)>>, cstrip(BDrop(b, 1)))

\* ins.readString(size_): read(size_), stripped
ins_readString(ins, size_) == [ins_read(ins, size_) EXCEPT !.data = cstrip(@)]

\* MelFids.load_mel: fid = ins.unpackRef(), size_ is not used
MelFids_load_mel(ins, size_) == ins_unpackRef(ins)

\* the elements load_mel is called on, one of each kind
LoadKinds == {"MelBase", "MelNull", "MelUInt32", "MelString", "MelStruct", "MelFids"}

\* the bytes a struct of format 'IB' and a scalar of format 'I' have
LoadStructSize == SumSeq(<<4, 1>>)
LoadScalarSize == 4

\* load_mel(record, ins, sub_type, size_) of an element of the kind:
\* [raised, ins, data]
Element_load_mel(kind, ins, size_) ==
    CASE kind = "MelBase" -> ins_read(ins, size_)
      [] kind = "MelNull" -> ins_seek(ins, size_)
      [] kind = "MelUInt32" -> ins_unpack(ins, LoadScalarSize, size_)
      [] kind = "MelString" -> ins_readString(ins, size_)
      [] kind = "MelStruct" -> ins_unpack(ins, LoadStructSize, size_)
      [] kind = "MelFids" -> MelFids_load_mel(ins, size_)

LoadInit ==
    /\ SubIdle /\ GrpIdle /\ RecIdle /\ ScanIdle /\ FogIdle
    /\ BatchIdle /\ SetIdle /\ IterIdle /\ ObjIdle
    /\ l_pc = "called"
    /\ \E kind \in LoadKinds, size_ \in 0 .. MaxLoadSize, at \in LoadOffsets,
          tail \in LoadTails :
          /\ l_in = [kind |-> kind, size_ |-> size_, pos |-> at]
          /\ l_ins = [data |-> Rep(at + size_ + tail, 65), pos |-> at]
    /\ l_rec = <<>>
    /\ l_exc = FALSE

\* the element's load_mel runs: the record gets what was read when it returns
LoadMel ==
    /\ l_pc = "called"
    /\ \E r \in {Element_load_mel(l_in.kind, l_ins, l_in.size_)} :
          /\ l_pc' = IF r.raised THEN "raised" ELSE "returned"
          /\ l_ins' = r.ins
          /\ l_exc' = r.raised
          /\ l_rec' = IF r.raised \/ l_in.kind = "MelNull" THEN l_rec
                      ELSE <<r.data>>
    /\ UNCHANGED l_in
    /\ UNCHANGED notLoad

LoadNext == LoadMel

SpecLoad == LoadInit /\ [][LoadNext]_vars

\* C22: when load_mel of an element returns, the reader is exactly the declared
\* size further than at the call, whatever the kind of the element.
C22_ConsumesDeclaredSize ==
    l_pc = "returned" => l_ins.pos = l_in.pos + l_in.size_

\* it is so for every kind but the reference list
C22_OthersConsumeDeclaredSize ==
    (l_pc = "returned" /\ l_in.kind # "MelFids") => l_ins.pos = l_in.pos + l_in.size_

\* the reference list consumes 4 bytes whatever the declared size
C22_FidsConsumeFour ==
    (l_pc = "returned" /\ l_in.kind = "MelFids") =>
        (l_ins.pos = l_in.pos + 4 /\ l_rec = <<Rep(4, 65)>>)

C22_Reached ==
    /\ l_pc = "returned" /\ l_in.kind = "MelFids" /\ l_in.size_ = 8
    /\ l_ins.pos = l_in.pos + 4

(***************************************************************************)
(* The objects of a group: _MelObject of MelGroup.__init__                 *)
(* (basic_elements.py 419-440).  A value is [k, v]: a plain value (v empty *)
(* for None), a list with its items, or an object of the nested group     *)
(* named.  The tables are the ones the elements of the group register:     *)
(* MelBase a default, MelFids and MelGroups a lister, MelGroup and         *)
(* MelGroups a provider, a nested group's providers under a dotted key.    *)
(***************************************************************************)
MaxObjOps == 3

PlainNone == [k |-> "val", v |-> <<>>]
Plain(n) == [k |-> "val", v |-> <<n>>]
ListOf(items) == [k |-> "list", v |-> items]
NewObject(type) == [k |-> "obj", v |-> <<type>>]

\* group_mel_set of a group with MelBase(b'EDID', 'eid'), MelBase(b'DATA',
\* 'count', 7), MelFids(b'XNAM', 'refs'), MelGroups('items', ...) and
\* MelGroup('sub', MelGroup('inner', ...))
ObjSchema ==
    [defaulters |-> [a \in {"eid", "count"} |-> IF a = "eid" THEN PlainNone ELSE Plain(7)],
     listers |-> {"refs", "items"},
     mel_providers_dict |-> {"items", "sub", "sub.inner"}]

\* __slots__ of _MelObject: the providers with a dot in their key are left out
MelObject_slots(mset) ==
    (DOMAIN mset.defaulters) \cup mset.listers
        \cup (mset.mel_providers_dict \ {"sub.inner"})

\* the names read from an object
ObjNames == MelObject_slots(ObjSchema) \cup {"sub.inner", "bogus"}

\* counter[name] += 1
Counted(counter, name) ==
    SetAttr(counter, name, IF name \in DOMAIN counter THEN counter[name] + 1 ELSE 1)

getattr_found_not_stored(mset, obj, name, target) ==
    [raised |-> FALSE, value |-> target, obj |-> obj]

\* setattr(self, missing_attr, target); return target: a name that is no slot
\* cannot be set, setattr raises AttributeError
getattr_found(mset, obj, name, target) ==
    IF name \in MelObject_slots(mset)
    THEN [raised |-> FALSE, value |-> target, obj |-> SetAttr(obj, name, target)]
    ELSE [raised |-> TRUE, value |-> PlainNone, obj |-> obj]

\* _MelObject.__getattr__(missing_attr): [raised, value, obj]
MelObject_getattr(mset, obj, name) ==
    IF name \in DOMAIN mset.defaulters
    THEN getattr_found(mset, obj, name, mset.defaulters[name])
    ELSE IF name \in mset.listers
    THEN getattr_found(mset, obj, name, ListOf(<<>>))
    ELSE IF name \in mset.mel_providers_dict
    THEN getattr_found(mset, obj, name, NewObject(name))
    ELSE [raised |-> TRUE, value |-> PlainNone, obj |-> obj]

ObjInit ==
    /\ SubIdle /\ GrpIdle /\ RecIdle /\ ScanIdle /\ FogIdle
    /\ BatchIdle /\ SetIdle /\ IterIdle /\ LoadIdle
    /\ o_pc = "made"
    /\ o_in = ObjSchema
    /\ o_obj = <<>>
    /\ o_ret = <<>>
    /\ o_misses = <<>>
    /\ o_errors = <<>>
    /\ o_n = 0

\* getattr(obj, name): the slot if it is set, else __getattr__
ObjRead ==
    /\ o_pc \in {"made", "read", "written"}
    /\ o_n < MaxObjOps
    /\ \E name \in ObjNames :
          IF name \in DOMAIN o_obj
          THEN /\ o_ret' = [name |-> name, raised |-> FALSE, value |-> o_obj[name],
                            before |-> o_obj]
               /\ UNCHANGED <<o_obj, o_misses, o_errors>>
          ELSE \E r \in {MelObject_getattr(o_in, o_obj, name)} :
                  /\ o_ret' = [name |-> name, raised |-> r.raised, value |-> r.value,
                               before |-> o_obj]
                  /\ o_obj' = r.obj
                  /\ o_misses' = Counted(o_misses, name)
                  /\ o_errors' = IF name \in MelObject_slots(o_in)
                                    \/ name \in o_in.mel_providers_dict
                                 THEN o_errors ELSE Counted(o_errors, name)
    /\ o_pc' = "read"
    /\ o_n' = o_n + 1
    /\ UNCHANGED o_in
    /\ UNCHANGED notObj

\* setattr(obj, name, value) by a loader or by the caller
ObjSet ==
    /\ o_pc \in {"made", "read", "written"}
    /\ o_n < MaxObjOps
    /\ \E name \in DOMAIN o_in.defaulters :
          o_obj' = SetAttr(o_obj, name, Plain(9))
    /\ o_pc' = "written"
    /\ o_n' = o_n + 1
    /\ UNCHANGED <<o_in, o_ret, o_misses, o_errors>>
    /\ UNCHANGED notObj

\* getattr(obj, name).append(item) was called: the list read before holds an
\* item more
ObjAppend ==
    /\ o_pc = "read"
    /\ o_n < MaxObjOps
    /\ ~o_ret.raised /\ o_ret.value.k = "list"
    /\ o_obj' = SetAttr(o_obj, o_ret.name, ListOf(Append(o_ret.value.v, 1)))
    /\ o_pc' = "written"
    /\ o_n' = o_n + 1
    /\ UNCHANGED <<o_in, o_ret, o_misses, o_errors>>
    /\ UNCHANGED notObj

ObjNext == ObjRead \/ ObjSet \/ ObjAppend

SpecObj == ObjInit /\ [][ObjNext]_vars

\* what the schema declares for an attribute never set
DeclaredDefault(name) ==
    CASE name = "eid" -> PlainNone
      [] name = "count" -> Plain(7)
      [] name \in {"refs", "items"} -> ListOf(<<>>)
      [] name = "sub" -> NewObject("sub")

====
